---- MODULE Spec2Model ----
(***************************************************************************)
(* Model of the uinput protocol layer (uinput.go, uinputdefs.go): the      *)
(* device file handle, the control calls issued against it, the event      *)
(* writers and the force-feedback exchange.                                *)
(*                                                                         *)
(* The kernel, the Go runtime's os.File and the user's callback are the    *)
(* environment: every outcome they can produce (a control call accepted    *)
(* or rejected, a read yielding an error, nothing or one event, the value  *)
(* the callback returns) is an input chosen with \E.  A 32-bit word is     *)
(* kept as two 16-bit halves [hi, lo] because the values exceed the        *)
(* integer range of the model checker.                                     *)
(***************************************************************************)
EXTENDS Integers, Sequences, FiniteSets, TLC

\* ------------------------------------------------------------------ bounds
MaxPending == 1        \* kernel events queued on the device file
MaxRequestID == 1      \* request ids 0..MaxRequestID carried by events
MaxKeys == 2           \* length of a key list passed to sendBtnEvent
MaxQueued == 2         \* kernel events queued while a caller loops
MaxDelivered == 2      \* requests the kernel sends to a looping caller
MaxNameLen == 85       \* length of the longest device name passed

\* ------------------------------------------------- constants (uinputdefs.go)
W32(h, l) == [hi |-> h, lo |-> l]

uiDevCreate == W32(0, 21761)
uiDevDestroy == W32(0, 21762)
uiGetSysname == W32(32833, 21804)
uiSetEvBit == W32(16388, 21860)
uiSetKeyBit == W32(16388, 21861)
uiSetRelBit == W32(16388, 21862)
uiSetAbsBit == W32(16388, 21863)
uiSetFFBit == W32(16388, 21867)
uiBeginFFUpload == W32(49256, 21960)
uiEndFFUpload == W32(16488, 21961)
uiBeginFFErase == W32(49164, 21962)
uiEndFFErase == W32(16396, 21963)

evSyn == 0
evKey == 1
evFF == 21
evAbs == 3
uinputMaxNameSize == 80
absSize == 64
busUsb == 3
synReport == 0
btnStateReleased == 0
btnStatePressed == 1
evUinput == 257
uiFFUpload == 1
uiFFErase == 2

\* ------------------------------------------------------------------ errors
\* A Go error value: the message prefix put in front by fmt.Errorf and the
\* wrapped OS error ("" when there is none).  NoErr is nil.
NoErr == [msg |-> "", cause |-> ""]
Err(m, c) == [msg |-> m, cause |-> c]
IsErr(e) == e # NoErr

\* --------------------------------------------------------------- the codec
\* uint32(v) of an int32 v, as two 16-bit halves.
Uint32(v) ==
    IF v >= 0
    THEN W32(v \div 65536, v % 65536)
    ELSE W32(((v + 2147483647 + 1) \div 65536) + 32768, (v + 2147483647 + 1) % 65536)

\* int32 value of a 32-bit word.
Int32(w) ==
    IF w.hi >= 32768 THEN (w.hi - 65536) * 65536 + w.lo ELSE w.hi * 65536 + w.lo

LE16(n) == <<n % 256, (n \div 256) % 256>>
LE32(w) == LE16(w.lo) \o LE16(w.hi)
\* a 64-bit field is four 16-bit words, least significant first
LE64(q) == LE16(q[1]) \o LE16(q[2]) \o LE16(q[3]) \o LE16(q[4])
Zero64 == <<0, 0, 0, 0>>

U16At(b, off) == b[off + 1] + 256 * b[off + 2]
W32At(b, off) == W32(U16At(b, off + 2), U16At(b, off))
W64At(b, off) == <<U16At(b, off), U16At(b, off + 2), U16At(b, off + 4), U16At(b, off + 6)>>

\* struct inputEvent {Time{Sec, Usec}, Type, Code, Value}
inputEvent(sec, usec, type, code, value) ==
    [Sec |-> sec, Usec |-> usec, Type |-> type, Code |-> code, Value |-> value]

\* the encoder with the code written in front of the type
inputEventToBufferCodeFirst(iev) ==
    LE64(iev.Sec) \o LE64(iev.Usec) \o LE16(iev.Code) \o LE16(iev.Type)
        \o LE32(Uint32(iev.Value))

\* binary.Write(buf, LittleEndian, iev): 24 bytes
inputEventToBuffer(iev) ==
    LE64(iev.Sec) \o LE64(iev.Usec) \o LE16(iev.Type) \o LE16(iev.Code)
        \o LE32(Uint32(iev.Value))

\* binary.Read(buf, LittleEndian, &iev)
inputEventFromBuffer(buffer) ==
    inputEvent(W64At(buffer, 0), W64At(buffer, 8), U16At(buffer, 16),
               U16At(buffer, 18), Int32(W32At(buffer, 20)))

\* ------------------------------------------------------------ the state
VARIABLES
    file,        \* the *os.File: "unopened" (nil), "open" or "closed"
    kdev,        \* the kernel's virtual device: "none", "created", "destroyed"
    pending,     \* 24-byte events the kernel has queued for reading
    op,          \* the function called last
    pre,         \* value of file when that call started
    arg,         \* its argument (callback, key list, ...)
    trace,       \* what that call did, in order: reads, writes, control
                 \* calls, callback invocations, file close
    ret,         \* the error it returned
    closeCalled, \* closeDevice has been called on the handle
    afterClose,  \* value of closeCalled when the last call started
    calc,        \* the last application of a codec or accessor function:
                 \* its name, its input, the bytes it works on, its result
    delivered,   \* history: the upload and erase events the kernel queued
                 \* for a looping caller, in order
    answered,    \* history: the end control calls that caller issued
    xr           \* the exchange of a looping caller taken step by step
                 \* while another context closes the handle: where the
                 \* call stands (pc), its event and callback result, the
                 \* steps it took, for each step whether close had already
                 \* returned nil (late), what the call returned; where
                 \* closeDevice stands (cpc) and what it returned (cret)

vars ==
    <<file, kdev, pending, op, pre, arg, trace, ret, closeCalled, afterClose, calc,
      delivered, answered, xr>>

NoCmd == W32(0, 0)
\* One step of a call. err is what the step reported ("" for success), buf
\* the bytes read or written, cmd the control call's number, id and rv the
\* request id and return value of the record passed, up and er whether the
\* callback's upload and erase arguments are non-nil.
Step(o, c, i, r, u, e, b, x) ==
    [op |-> o, cmd |-> c, id |-> i, rv |-> r, up |-> u, er |-> e, buf |-> b,
     err |-> x, ok |-> (x = "")]
ReadStep(b, x) == Step("read", NoCmd, NoCmd, 0, FALSE, FALSE, b, x)
WriteStep(b, x) == Step("write", NoCmd, NoCmd, 0, FALSE, FALSE, b, x)
CloseStep(x) == Step("close", NoCmd, NoCmd, 0, FALSE, FALSE, <<>>, x)
IoctlStep(c, i, r, x) == Step("ioctl", c, i, r, FALSE, FALSE, <<>>, x)
CallbackStep(u, e, i, r) == Step("callback", NoCmd, i, r, u, e, <<>>, "")

\* outcomes the environment can report
IoctlErrs == {"EINVAL"}
IoctlOutcomes == {""} \cup IoctlErrs
CloseOutcomes == {"", "EIO"}
WriteOutcomes == {"", "EIO"}
ReadOutcomes == {"err", "zero", "event"}
CallbackReturns == {0, -1}
Callbacks == {"nil", "fn"}

\* ioctl(deviceFile, cmd, ptr): the errno of the system call, "" for nil.
\* On a nil or closed file Fd() is not a descriptor and the call fails.
ioctl(f, e) == IF f = "open" THEN e ELSE "EBADF"

\* the kernel's device after a control call
devAfter(d, cmd, e) ==
    IF e # "" THEN d
    ELSE IF cmd = uiDevCreate THEN "created"
    ELSE IF cmd = uiDevDestroy THEN "destroyed"
    ELSE d

\* deviceFile.Close(): the descriptor is released whatever close(2) reports
fileClose(f, e) ==
    IF f = "open"
    THEN [err |-> e, file |-> "closed", trace |-> <<CloseStep(e)>>]
    ELSE [err |-> "file already closed", file |-> f,
          trace |-> <<CloseStep("file already closed")>>]

\* deviceFile.Write(buf) of the serialized descriptor
fileWrite(f, e) == IF f = "open" THEN e ELSE "file already closed"

releaseDevice(f, d, eDestroy) ==
    LET e == ioctl(f, eDestroy)
    IN [err |-> e, dev |-> devAfter(d, uiDevDestroy, e),
        trace |-> <<IoctlStep(uiDevDestroy, NoCmd, 0, e)>>]

\* variant: the file is closed whatever destroy reports and only the result
\* of Close is returned
closeDeviceDropDestroyErr(f, d, eDestroy, eClose) ==
    LET rel == releaseDevice(f, d, eDestroy)
        c == fileClose(f, eClose)
    IN [ret |-> Err("", c.err), file |-> c.file, dev |-> rel.dev,
        trace |-> rel.trace \o c.trace]

closeDevice(f, d, eDestroy, eClose) ==
    LET rel == releaseDevice(f, d, eDestroy)
    IN IF rel.err # ""
       THEN [ret |-> Err("failed to close device: ", rel.err), file |-> f,
             dev |-> rel.dev, trace |-> rel.trace]
       ELSE LET c == fileClose(f, eClose)
            IN [ret |-> Err("", c.err), file |-> c.file, dev |-> rel.dev,
                trace |-> rel.trace \o c.trace]

\* ------------------------------------------------- the force-feedback path
NoEvent == [some |-> FALSE, ev |-> inputEvent(Zero64, Zero64, 0, 0, 0)]
SomeEvent(e) == [some |-> TRUE, ev |-> e]

\* variant: a read of zero bytes is reported as an error
readEventZeroIsError(f, q, rd) ==
    IF f # "open"
    THEN [ie |-> NoEvent, pending |-> q,
          trace |-> <<ReadStep(<<>>, "file already closed")>>,
          err |-> Err("reading input event from device file failed: ", "file already closed")]
    ELSE IF rd = "err"
    THEN [ie |-> NoEvent, pending |-> q, trace |-> <<ReadStep(<<>>, "EAGAIN")>>,
          err |-> Err("reading input event from device file failed: ", "EAGAIN")]
    ELSE IF rd = "zero"
    THEN [ie |-> NoEvent, pending |-> q, trace |-> <<ReadStep(<<>>, "")>>,
          err |-> Err("reading input event from device file failed: ", "EOF")]
    ELSE [ie |-> SomeEvent(inputEventFromBuffer(Head(q))), pending |-> Tail(q),
          trace |-> <<ReadStep(Head(q), "")>>, err |-> NoErr]

\* readEvent: rd is what deviceFile.Read reports. A read of a nil or closed
\* file fails; one event is taken from the queue only when 24 bytes are read.
\* readEvent returning a fixed message for a failed read
readEventDropCause(f, q, rd) ==
    IF f # "open"
    THEN [ie |-> NoEvent, pending |-> q,
          trace |-> <<ReadStep(<<>>, "file already closed")>>,
          err |-> Err("reading input event from device file failed", "")]
    ELSE IF rd = "err"
    THEN [ie |-> NoEvent, pending |-> q, trace |-> <<ReadStep(<<>>, "EAGAIN")>>,
          err |-> Err("reading input event from device file failed", "")]
    ELSE IF rd = "zero"
    THEN [ie |-> NoEvent, pending |-> q, trace |-> <<ReadStep(<<>>, "")>>, err |-> NoErr]
    ELSE [ie |-> SomeEvent(inputEventFromBuffer(Head(q))), pending |-> Tail(q),
          trace |-> <<ReadStep(Head(q), "")>>, err |-> NoErr]

readEvent(f, q, rd) ==
    IF f # "open"
    THEN [ie |-> NoEvent, pending |-> q,
          trace |-> <<ReadStep(<<>>, "file already closed")>>,
          err |-> Err("reading input event from device file failed: ", "file already closed")]
    ELSE IF rd = "err"
    THEN [ie |-> NoEvent, pending |-> q, trace |-> <<ReadStep(<<>>, "EAGAIN")>>,
          err |-> Err("reading input event from device file failed: ", "EAGAIN")]
    ELSE IF rd = "zero"
    THEN [ie |-> NoEvent, pending |-> q, trace |-> <<ReadStep(<<>>, "")>>, err |-> NoErr]
    ELSE [ie |-> SomeEvent(inputEventFromBuffer(Head(q))), pending |-> Tail(q),
          trace |-> <<ReadStep(Head(q), "")>>, err |-> NoErr]

\* variant: the callback's result is not stored into ReturnValue
ffRequestNoStore(f, ie, begin, end, isUpload, msgBegin, msgEnd, eBegin, cbRet, eEnd) ==
    LET RequestID == Uint32(ie.Value)
        e1 == ioctl(f, eBegin)
        t1 == <<IoctlStep(begin, RequestID, 0, e1)>>
        t2 == <<CallbackStep(isUpload, ~isUpload, RequestID, cbRet)>>
        e2 == ioctl(f, eEnd)
        t3 == <<IoctlStep(end, RequestID, 0, e2)>>
    IN IF e1 # "" THEN [ret |-> Err(msgBegin, e1), trace |-> t1]
       ELSE IF e2 # "" THEN [ret |-> Err(msgEnd, e2), trace |-> t1 \o t2 \o t3]
       ELSE [ret |-> NoErr, trace |-> t1 \o t2 \o t3]

\* variant: both branches hand the request to the callback's first argument
ffRequestUploadArg(f, ie, begin, end, isUpload, msgBegin, msgEnd, eBegin, cbRet, eEnd) ==
    LET RequestID == Uint32(ie.Value)
        e1 == ioctl(f, eBegin)
        t1 == <<IoctlStep(begin, RequestID, 0, e1)>>
        t2 == <<CallbackStep(TRUE, FALSE, RequestID, cbRet)>>
        e2 == ioctl(f, eEnd)
        t3 == <<IoctlStep(end, RequestID, cbRet, e2)>>
    IN IF e1 # "" THEN [ret |-> Err(msgBegin, e1), trace |-> t1]
       ELSE IF e2 # "" THEN [ret |-> Err(msgEnd, e2), trace |-> t1 \o t2 \o t3]
       ELSE [ret |-> NoErr, trace |-> t1 \o t2 \o t3]

\* variant: the error of the begin control call is not checked before the
\* callback runs
ffRequestIgnoreBegin(f, ie, begin, end, isUpload, msgBegin, msgEnd, eBegin, cbRet, eEnd) ==
    LET RequestID == Uint32(ie.Value)
        e1 == ioctl(f, eBegin)
        t1 == <<IoctlStep(begin, RequestID, 0, e1)>>
        t2 == <<CallbackStep(isUpload, ~isUpload, RequestID, cbRet)>>
        e2 == ioctl(f, eEnd)
        t3 == <<IoctlStep(end, RequestID, cbRet, e2)>>
    IN IF e2 # "" THEN [ret |-> Err(msgEnd, e2), trace |-> t1 \o t2 \o t3]
       ELSE [ret |-> NoErr, trace |-> t1 \o t2 \o t3]

\* variant: a request the callback refuses is not ended
ffRequestNoEndOnRefusal(f, ie, begin, end, isUpload, msgBegin, msgEnd, eBegin, cbRet, eEnd) ==
    LET RequestID == Uint32(ie.Value)
        e1 == ioctl(f, eBegin)
        t1 == <<IoctlStep(begin, RequestID, 0, e1)>>
        t2 == <<CallbackStep(isUpload, ~isUpload, RequestID, cbRet)>>
        e2 == ioctl(f, eEnd)
        t3 == <<IoctlStep(end, RequestID, cbRet, e2)>>
    IN IF e1 # "" THEN [ret |-> Err(msgBegin, e1), trace |-> t1]
       ELSE IF cbRet # 0 THEN [ret |-> NoErr, trace |-> t1 \o t2]
       ELSE IF e2 # "" THEN [ret |-> Err(msgEnd, e2), trace |-> t1 \o t2 \o t3]
       ELSE [ret |-> NoErr, trace |-> t1 \o t2 \o t3]

\* the upload and the erase branch of the switch: begin, callback, end
ffRequest(f, ie, begin, end, isUpload, msgBegin, msgEnd, eBegin, cbRet, eEnd) ==
    LET RequestID == Uint32(ie.Value)
        e1 == ioctl(f, eBegin)
        t1 == <<IoctlStep(begin, RequestID, 0, e1)>>
        ReturnValue == cbRet
        t2 == <<CallbackStep(isUpload, ~isUpload, RequestID, ReturnValue)>>
        e2 == ioctl(f, eEnd)
        t3 == <<IoctlStep(end, RequestID, ReturnValue, e2)>>
    IN IF e1 # "" THEN [ret |-> Err(msgBegin, e1), trace |-> t1]
       ELSE IF e2 # "" THEN [ret |-> Err(msgEnd, e2), trace |-> t1 \o t2 \o t3]
       ELSE [ret |-> NoErr, trace |-> t1 \o t2 \o t3]

forceFeedbackCallback(f, q, callback, rd, eBegin, cbRet, eEnd) ==
    LET r == readEvent(f, q, rd)
        ie == r.ie.ev
        disp ==
            IF ie.Type = evUinput /\ ie.Code = uiFFUpload
            THEN ffRequest(f, ie, uiBeginFFUpload, uiEndFFUpload, TRUE,
                           "begin ff upload ioctl failed: ",
                           "end ff upload ioctl failed: ", eBegin, cbRet, eEnd)
            ELSE IF ie.Type = evUinput /\ ie.Code = uiFFErase
            THEN ffRequest(f, ie, uiBeginFFErase, uiEndFFErase, FALSE,
                           "begin ff erase ioctl failed: ",
                           "end ff erase ioctl failed: ", eBegin, cbRet, eEnd)
            ELSE [ret |-> NoErr, trace |-> <<>>]
    IN IF IsErr(r.err)
       THEN [ret |-> r.err, pending |-> r.pending, trace |-> r.trace]
       ELSE IF ~r.ie.some
       THEN [ret |-> NoErr, pending |-> r.pending, trace |-> r.trace]
       ELSE IF callback = "nil"
       THEN [ret |-> Err("callback was nil", ""), pending |-> r.pending, trace |-> r.trace]
       ELSE [ret |-> disp.ret, pending |-> r.pending, trace |-> r.trace \o disp.trace]

\* ------------------------------------------------------------ the syspath
\* "/sys/devices/virtual/input/" as bytes
sysInputDir ==
    <<47, 115, 121, 115, 47, 100, 101, 118, 105, 99, 101, 115, 47, 118, 105, 114,
      116, 117, 97, 108, 47, 105, 110, 112, 117, 116, 47>>

\* fetchSyspath: path := make([]byte, 65) is handed to uiGetSysname; on
\* success the kernel has stored the name kname and its terminator in it, a
\* device that was not created has no name (ENOENT). The result is
\* sysInputDir + string(path), the conversion of all 65 bytes.
fetchSyspath(f, d, e, kname) ==
    LET err == IF f # "open" THEN ioctl(f, e)
               ELSE IF d # "created" THEN "ENOENT"
               ELSE e
        path == [i \in 1..65 |-> IF err = "" /\ i <= Len(kname) THEN kname[i] ELSE 0]
    IN [ret |-> Err("", err), path |-> path, result |-> sysInputDir \o path,
        trace |-> <<Step("ioctl", uiGetSysname, NoCmd, 0, FALSE, FALSE, path, err)>>]

\* ------------------------------------------------------- the event writers
\* deviceFile.Write(buf) of one 24-byte event record: the uinput device takes
\* event records only while the device exists; before device-create (and
\* after device-destroy) a write is read as a descriptor and a buffer of the
\* wrong size is rejected.
eventWrite(f, d, e) ==
    IF f # "open" THEN "file already closed"
    ELSE IF d # "created" THEN "EINVAL"
    ELSE e

syncEvents(f, d, eSync) ==
    LET buf == inputEventToBuffer(inputEvent(Zero64, Zero64, evSyn, synReport, 0))
        e == eventWrite(f, d, eSync)
    IN [ret |-> Err("", e), trace |-> <<WriteStep(buf, e)>>]

\* sendBtnEvent: the loop over keys from index i on. failAt is the index of
\* the first write the environment fails (0: none); the writes before it
\* succeed and the ones after it are never reached.
RECURSIVE sendKeys(_, _, _, _, _, _)
sendKeys(f, d, keys, btnState, failAt, i) ==
    IF i > Len(keys) THEN [err |-> "", trace |-> <<>>]
    ELSE LET buf == inputEventToBuffer(
                        inputEvent(Zero64, Zero64, evKey, keys[i] % 65536, btnState))
             e == eventWrite(f, d, IF i = failAt THEN "EIO" ELSE "")
         IN IF e # "" THEN [err |-> e, trace |-> <<WriteStep(buf, e)>>]
            ELSE LET rest == sendKeys(f, d, keys, btnState, failAt, i + 1)
                 IN [err |-> rest.err, trace |-> <<WriteStep(buf, "")>> \o rest.trace]

\* sendBtnEvent returning after the loop without the sync record
sendBtnEventNoSync(f, d, keys, btnState, failAt, eSync) ==
    LET k == sendKeys(f, d, keys, btnState, failAt, 1)
    IN IF k.err # ""
       THEN [ret |-> Err("writing btnEvent structure to the device file failed: ", k.err),
             trace |-> k.trace]
       ELSE [ret |-> NoErr, trace |-> k.trace]

\* sendBtnEvent writing the sync record after a failed key write as well
sendBtnEventSyncAlways(f, d, keys, btnState, failAt, eSync) ==
    LET k == sendKeys(f, d, keys, btnState, failAt, 1)
        s == syncEvents(f, d, eSync)
    IN IF k.err # ""
       THEN [ret |-> Err("writing btnEvent structure to the device file failed: ", k.err),
             trace |-> k.trace \o s.trace]
       ELSE [ret |-> s.ret, trace |-> k.trace \o s.trace]

\* sendBtnEvent dropping the error of the sync write
sendBtnEventDropSyncError(f, d, keys, btnState, failAt, eSync) ==
    LET k == sendKeys(f, d, keys, btnState, failAt, 1)
    IN IF k.err # ""
       THEN [ret |-> Err("writing btnEvent structure to the device file failed: ", k.err),
             trace |-> k.trace]
       ELSE LET s == syncEvents(f, d, eSync)
            IN [ret |-> NoErr, trace |-> k.trace \o s.trace]

sendBtnEvent(f, d, keys, btnState, failAt, eSync) ==
    LET k == sendKeys(f, d, keys, btnState, failAt, 1)
    IN IF k.err # ""
       THEN [ret |-> Err("writing btnEvent structure to the device file failed: ", k.err),
             trace |-> k.trace]
       ELSE LET s == syncEvents(f, d, eSync)
            IN [ret |-> s.ret, trace |-> k.trace \o s.trace]

\* ---------------------------------------------------------- the lifecycle
\* validateDevicePath without the os.Stat of the path
validateDevicePathNoStat(path, eStat) ==
    IF path = "" THEN Err("device path must not be empty", "")
    ELSE NoErr

\* validateDevicePath: eStat is what os.Stat(path) returns, handed back as is
validateDevicePath(path, eStat) ==
    IF path = "" THEN Err("device path must not be empty", "")
    ELSE Err("", eStat)

\* a []byte: the nil slice and the slices of bytes
NilSlice == [nil |-> TRUE, bytes |-> <<>>]
Slice(b) == [nil |-> FALSE, bytes |-> b]

\* validateUinputName accepting one byte more than uinputMaxNameSize
validateUinputNameOffByOne(name) ==
    IF name.nil \/ Len(name.bytes) = 0
    THEN Err("device name may not be empty", "")
    ELSE IF Len(name.bytes) > uinputMaxNameSize + 1
    THEN Err(<<"device name ", name.bytes, " is too long (maximum of ",
               uinputMaxNameSize, " characters allowed)">>, "")
    ELSE NoErr

\* validateUinputName: the message of the second error is the format with
\* the name (%s) and the limit (%d) put in
validateUinputName(name) ==
    IF name.nil \/ Len(name.bytes) = 0
    THEN Err("device name may not be empty", "")
    ELSE IF Len(name.bytes) > uinputMaxNameSize
    THEN Err(<<"device name ", name.bytes, " is too long (maximum of ",
               uinputMaxNameSize, " characters allowed)">>, "")
    ELSE NoErr

\* createDeviceFile: os.OpenFile(path, O_RDWR|O_NONBLOCK, 0660)
createDeviceFile(eOpen) ==
    IF eOpen # ""
    THEN [ret |-> Err("could not open device file", ""), file |-> "unopened"]
    ELSE [ret |-> NoErr, file |-> "open"]

\* variant: Close is not deferred but follows a successful destroy only
registerDeviceNoDefer(f, d, evType, eSet, eDestroy, eClose) ==
    LET e == ioctl(f, eSet)
        t1 == <<IoctlStep(uiSetEvBit, Uint32(evType), 0, e)>>
        rel == releaseDevice(f, d, eDestroy)
        c == fileClose(f, eClose)
    IN IF e # ""
       THEN IF rel.err # ""
            THEN [ret |-> Err("failed to close device: ", rel.err), file |-> f,
                  dev |-> rel.dev, trace |-> t1 \o rel.trace]
            ELSE [ret |-> Err("invalid file handle returned from ioctl: ", rel.err),
                  file |-> c.file, dev |-> rel.dev, trace |-> t1 \o rel.trace \o c.trace]
       ELSE [ret |-> NoErr, file |-> f, dev |-> d, trace |-> t1]

\* registerDevice: the deferred Close runs when the function returns
registerDevice(f, d, evType, eSet, eDestroy, eClose) ==
    LET e == ioctl(f, eSet)
        t1 == <<IoctlStep(uiSetEvBit, Uint32(evType), 0, e)>>
        rel == releaseDevice(f, d, eDestroy)
        c == fileClose(f, eClose)
    IN IF e # ""
       THEN [ret |-> IF rel.err # ""
                     THEN Err("failed to close device: ", rel.err)
                     ELSE Err("invalid file handle returned from ioctl: ", rel.err),
             file |-> c.file, dev |-> rel.dev, trace |-> t1 \o rel.trace \o c.trace]
       ELSE [ret |-> NoErr, file |-> f, dev |-> d, trace |-> t1]

\* struct uinputUserDev, written with binary.Write in field order

\* toUinputName: copy(fixedSizeName[:], name)
toUinputName(name) ==
    [i \in 1..uinputMaxNameSize |-> IF i <= Len(name) THEN name[i] ELSE 0]

\* a table of absSize int32 entries, 4 bytes each
absTableBytes(t) ==
    [i \in 1..(4 * absSize) |-> LE32(Uint32(t[(i - 1) \div 4]))[((i - 1) % 4) + 1]]

\* the serialization with the table of minima in front of the maxima
uinputUserDevBytesMinFirst(dev) ==
    dev.Name \o LE16(dev.Bustype) \o LE16(dev.Vendor) \o LE16(dev.Product)
        \o LE16(dev.Version) \o LE32(Uint32(dev.EffectsMax))
        \o absTableBytes(dev.Absmin) \o absTableBytes(dev.Absmax)
        \o absTableBytes(dev.Absfuzz) \o absTableBytes(dev.Absflat)

uinputUserDevBytes(dev) ==
    dev.Name \o LE16(dev.Bustype) \o LE16(dev.Vendor) \o LE16(dev.Product)
        \o LE16(dev.Version) \o LE32(Uint32(dev.EffectsMax))
        \o absTableBytes(dev.Absmax) \o absTableBytes(dev.Absmin)
        \o absTableBytes(dev.Absfuzz) \o absTableBytes(dev.Absflat)

\* the descriptors the device builders pass
ZeroTable == [i \in 0..(absSize - 1) |-> 0]
Gamepad == <<71, 97, 109, 101, 112, 97, 100>>
Descriptors ==
    {[Name |-> toUinputName(Gamepad), Bustype |-> busUsb, Vendor |-> 57005,
      Product |-> 48879, Version |-> 1, EffectsMax |-> m, Absmax |-> ZeroTable,
      Absmin |-> ZeroTable, Absfuzz |-> ZeroTable, Absflat |-> ZeroTable] : m \in {0, 1}}

\* binary.Write(buf, LittleEndian, dev); the serializations of the
\* descriptors above are computed once
SerializedDescriptors == [d \in Descriptors |-> uinputUserDevBytes(d)]
binaryWrite(dev) ==
    IF dev \in Descriptors THEN SerializedDescriptors[dev] ELSE uinputUserDevBytes(dev)

\* createUsbDevice without the Close of its failure returns
createUsbDeviceNoClose(f, d, dev, eWrite, eCreate, eClose) ==
    LET buf == binaryWrite(dev)
        e1 == fileWrite(f, eWrite)
        t1 == <<WriteStep(buf, e1)>>
        e2 == ioctl(f, eCreate)
        t2 == <<IoctlStep(uiDevCreate, NoCmd, 0, e2)>>
    IN IF e1 # ""
       THEN [ret |-> Err("failed to write uidev struct to device file: ", e1),
             file |-> f, dev |-> d, trace |-> t1]
       ELSE IF e2 # ""
       THEN [ret |-> Err("failed to create device: ", e2),
             file |-> f, dev |-> d, trace |-> t1 \o t2]
       ELSE [ret |-> NoErr, file |-> f, dev |-> devAfter(d, uiDevCreate, e2),
             trace |-> t1 \o t2]

\* createUsbDevice issuing uiDevCreate whatever the write returned
createUsbDeviceCreateAnyway(f, d, dev, eWrite, eCreate, eClose) ==
    LET buf == binaryWrite(dev)
        e1 == fileWrite(f, eWrite)
        t1 == <<WriteStep(buf, e1)>>
        e2 == ioctl(f, eCreate)
        t2 == <<IoctlStep(uiDevCreate, NoCmd, 0, e2)>>
        c == fileClose(f, eClose)
    IN IF e2 # ""
       THEN [ret |-> Err("failed to create device: ", e2),
             file |-> c.file, dev |-> d, trace |-> t1 \o t2 \o c.trace]
       ELSE [ret |-> NoErr, file |-> f, dev |-> devAfter(d, uiDevCreate, e2),
             trace |-> t1 \o t2]

\* createUsbDevice: binary.Write of the fixed-size struct cannot fail, so the
\* first error branch is never taken; the other two close the file only.
createUsbDevice(f, d, dev, eWrite, eCreate, eClose) ==
    LET buf == binaryWrite(dev)
        e1 == fileWrite(f, eWrite)
        t1 == <<WriteStep(buf, e1)>>
        e2 == ioctl(f, eCreate)
        t2 == <<IoctlStep(uiDevCreate, NoCmd, 0, e2)>>
        c == fileClose(f, eClose)
    IN IF e1 # ""
       THEN [ret |-> Err("failed to write uidev struct to device file: ", e1),
             file |-> c.file, dev |-> d, trace |-> t1 \o c.trace]
       ELSE IF e2 # ""
       THEN [ret |-> Err("failed to create device: ", e2),
             file |-> c.file, dev |-> d, trace |-> t1 \o t2 \o c.trace]
       ELSE [ret |-> NoErr, file |-> f, dev |-> devAfter(d, uiDevCreate, e2),
             trace |-> t1 \o t2]

\* ------------------------------------------------- the gamepad constructors
\* registerDevice for each event type of types from index i on; failAt is
\* the index of the registration the kernel rejects (0: none)
RECURSIVE registerAll(_, _, _, _, _, _, _)
registerAll(f, d, types, failAt, eDestroy, eClose, i) ==
    IF i > Len(types) THEN [ret |-> NoErr, file |-> f, dev |-> d, trace |-> <<>>]
    ELSE LET r == registerDevice(f, d, types[i], IF i = failAt THEN "EINVAL" ELSE "",
                                 eDestroy, eClose)
         IN IF IsErr(r.ret) THEN r
            ELSE LET rest == registerAll(r.file, r.dev, types, failAt, eDestroy, eClose, i + 1)
                 IN [rest EXCEPT !.trace = r.trace \o rest.trace]

\* the descriptor the constructors hand to createUsbDevice
gamepadDescriptor(name, effectsMax) ==
    [Name |-> toUinputName(name.bytes), Bustype |-> busUsb, Vendor |-> 57005,
     Product |-> 48879, Version |-> 1, EffectsMax |-> effectsMax, Absmax |-> ZeroTable,
     Absmin |-> ZeroTable, Absfuzz |-> ZeroTable, Absflat |-> ZeroTable]

\* the constructors without the check of effectsMax
createGamepadNoMinimum(path, name, rumble, effectsMax, eStat, eOpen, failAt, eDestroy, eClose) ==
    LET vp == validateDevicePath(path, eStat)
        vn == validateUinputName(name)
        o == createDeviceFile(eOpen)
        types == IF rumble THEN <<evKey, evAbs, evFF>> ELSE <<evKey, evAbs>>
        regs == registerAll(o.file, "none", types, failAt, eDestroy, eClose, 1)
        c == createUsbDevice(regs.file, regs.dev,
                             gamepadDescriptor(name, IF rumble THEN effectsMax ELSE 0),
                             IF failAt = Len(types) + 1 THEN "EIO" ELSE "",
                             IF failAt = Len(types) + 2 THEN "EINVAL" ELSE "", eClose)
        none == [file |-> "unopened", dev |-> "none", trace |-> <<>>]
    IN IF IsErr(vp) THEN [ret |-> vp] @@ none
       ELSE IF IsErr(vn) THEN [ret |-> vn] @@ none
       ELSE IF FALSE
       THEN [ret |-> Err("effectsMax is below the minimum value of 1, use CreateGamepad if you don't want rumble support", "")]
                @@ none
       ELSE IF IsErr(o.ret) THEN [ret |-> o.ret] @@ none
       ELSE IF IsErr(regs.ret)
       THEN [ret |-> Err("failed to register virtual gamepad device: " \o regs.ret.msg,
                         regs.ret.cause),
             file |-> regs.file, dev |-> regs.dev, trace |-> regs.trace]
       ELSE [ret |-> c.ret, file |-> c.file, dev |-> c.dev,
             trace |-> regs.trace \o c.trace]

\* CreateGamepad (rumble = FALSE) and CreateGamepadWithRumble (rumble = TRUE):
\* path and name are validated, then effectsMax, then the file is opened,
\* the event types are registered and the descriptor is committed. failAt
\* numbers the steps after the open: the registrations, the descriptor write
\* and device-create.
createGamepad(path, name, rumble, effectsMax, eStat, eOpen, failAt, eDestroy, eClose) ==
    LET vp == validateDevicePath(path, eStat)
        vn == validateUinputName(name)
        o == createDeviceFile(eOpen)
        types == IF rumble THEN <<evKey, evAbs, evFF>> ELSE <<evKey, evAbs>>
        regs == registerAll(o.file, "none", types, failAt, eDestroy, eClose, 1)
        c == createUsbDevice(regs.file, regs.dev,
                             gamepadDescriptor(name, IF rumble THEN effectsMax ELSE 0),
                             IF failAt = Len(types) + 1 THEN "EIO" ELSE "",
                             IF failAt = Len(types) + 2 THEN "EINVAL" ELSE "", eClose)
        none == [file |-> "unopened", dev |-> "none", trace |-> <<>>]
    IN IF IsErr(vp) THEN [ret |-> vp] @@ none
       ELSE IF IsErr(vn) THEN [ret |-> vn] @@ none
       ELSE IF rumble /\ effectsMax < 1
       THEN [ret |-> Err("effectsMax is below the minimum value of 1, use CreateGamepad if you don't want rumble support", "")]
                @@ none
       ELSE IF IsErr(o.ret) THEN [ret |-> o.ret] @@ none
       ELSE IF IsErr(regs.ret)
       THEN [ret |-> Err("failed to register virtual gamepad device: " \o regs.ret.msg,
                         regs.ret.cause),
             file |-> regs.file, dev |-> regs.dev, trace |-> regs.trace]
       ELSE [ret |-> c.ret, file |-> c.file, dev |-> c.dev,
             trace |-> regs.trace \o c.trace]

\* ------------------------------------------------------------- the inputs
\* what the kernel queues: upload and erase requests with their ids, a
\* control event with another code, and an event of another type whose code
\* is that of an upload
KernelEvents ==
    {inputEvent(Zero64, Zero64, evUinput, c, v) :
        c \in {uiFFUpload, uiFFErase}, v \in 0..MaxRequestID}
    \cup {inputEvent(Zero64, Zero64, evUinput, 3, 0),
          inputEvent(Zero64, Zero64, evFF, uiFFUpload, 0)}

KeyCodes == {1, 304}
KeyLists == UNION {[1..n -> KeyCodes] : n \in 0..MaxKeys}

NoArg == [callback |-> "-", keys |-> <<>>, state |-> 0, pending |-> <<>>]
NoCalc == [fn |-> "none", in |-> <<>>, rec |-> <<>>, out |-> <<>>, read |-> {}]

\* ------------------------------- the exchange and close in two contexts
\* forceFeedbackCallback taken one file operation at a time, with a
\* callback; closeDevice taken one file operation at a time.
NoRace ==
    [pc |-> "idle", ie |-> NoEvent.ev, rv |-> 0, steps |-> <<>>, late |-> <<>>,
     ret |-> NoErr, returned |-> FALSE, cpc |-> "idle", cret |-> NoErr]
\* closeDevice has returned nil
CloseReturned(x) == x.cpc = "done" /\ x.cret = NoErr
IsUpload(x) == x.ie.Code = uiFFUpload

\* ie, err = readEvent(deviceFile) and the tests up to the switch: the call
\* returns unless the event is an upload or an erase request
loopRead(f, q, x, rd) ==
    LET r == readEvent(f, q, rd)
        ie == r.ie.ev
        isRequest == /\ ~IsErr(r.err)
                     /\ r.ie.some
                     /\ ie.Type = evUinput
                     /\ ie.Code \in {uiFFUpload, uiFFErase}
    IN [pending |-> r.pending,
        x |-> [x EXCEPT !.pc = IF isRequest THEN "read" ELSE "idle",
                        !.ie = IF isRequest THEN ie ELSE NoEvent.ev,
                        !.rv = 0,
                        !.steps = r.trace,
                        !.late = <<CloseReturned(x)>>,
                        !.ret = r.err,
                        !.returned = ~isRequest]]

\* the begin control call of the request read
loopBegin(f, x, eBegin) ==
    LET e1 == ioctl(f, eBegin)
        begin == IF IsUpload(x) THEN uiBeginFFUpload ELSE uiBeginFFErase
        msg == IF IsUpload(x) THEN "begin ff upload ioctl failed: "
               ELSE "begin ff erase ioctl failed: "
    IN [x EXCEPT !.pc = IF e1 # "" THEN "idle" ELSE "begun",
                 !.steps = @ \o <<IoctlStep(begin, Uint32(x.ie.Value), 0, e1)>>,
                 !.late = @ \o <<CloseReturned(x)>>,
                 !.ret = IF e1 # "" THEN Err(msg, e1) ELSE NoErr,
                 !.returned = (e1 # "")]

\* ReturnValue = callback(...)
loopCallback(x, cbRet) ==
    [x EXCEPT !.pc = "called",
              !.rv = cbRet,
              !.steps = @ \o <<CallbackStep(IsUpload(x), ~IsUpload(x),
                                            Uint32(x.ie.Value), cbRet)>>,
              !.late = @ \o <<CloseReturned(x)>>]

\* variant: a failed end control call is not returned
loopEndDropError(f, x, eEnd) ==
    LET e2 == ioctl(f, eEnd)
        end == IF IsUpload(x) THEN uiEndFFUpload ELSE uiEndFFErase
    IN [x EXCEPT !.pc = "idle",
                 !.steps = @ \o <<IoctlStep(end, Uint32(x.ie.Value), x.rv, e2)>>,
                 !.late = @ \o <<CloseReturned(x)>>,
                 !.ret = NoErr,
                 !.returned = TRUE]

\* the end control call, after which the call returns
loopEnd(f, x, eEnd) ==
    LET e2 == ioctl(f, eEnd)
        end == IF IsUpload(x) THEN uiEndFFUpload ELSE uiEndFFErase
        msg == IF IsUpload(x) THEN "end ff upload ioctl failed: "
               ELSE "end ff erase ioctl failed: "
    IN [x EXCEPT !.pc = "idle",
                 !.steps = @ \o <<IoctlStep(end, Uint32(x.ie.Value), x.rv, e2)>>,
                 !.late = @ \o <<CloseReturned(x)>>,
                 !.ret = IF e2 # "" THEN Err(msg, e2) ELSE NoErr,
                 !.returned = TRUE]

\* closeDevice up to the test of releaseDevice's error
closeDestroy(f, d, x, eDestroy) ==
    LET rel == releaseDevice(f, d, eDestroy)
    IN [dev |-> rel.dev,
        x |-> [x EXCEPT !.cpc = IF rel.err # "" THEN "done" ELSE "destroyed",
                        !.cret = IF rel.err # ""
                                 THEN Err("failed to close device: ", rel.err)
                                 ELSE NoErr]]

\* return deviceFile.Close()
closeFile(f, x, eClose) ==
    LET c == fileClose(f, eClose)
    IN [file |-> c.file,
        x |-> [x EXCEPT !.cpc = "done", !.cret = Err("", c.err)]]

\* ---------------------------------------------------------------- actions
Init ==
    /\ file = "unopened"
    /\ kdev = "none"
    /\ pending = <<>>
    /\ op = "none"
    /\ pre = "unopened"
    /\ arg = NoArg
    /\ trace = <<>>
    /\ ret = NoErr
    /\ closeCalled = FALSE
    /\ afterClose = FALSE
    /\ calc = NoCalc
    /\ delivered = <<>>
    /\ answered = <<>>
    /\ xr = NoRace

CreateDeviceFile ==
    /\ file = "unopened"
    /\ \E eOpen \in {"", "ENOENT"} :
         LET r == createDeviceFile(eOpen)
         IN /\ file' = r.file
            /\ ret' = r.ret
    /\ op' = "createDeviceFile"
    /\ afterClose' = closeCalled
    /\ pre' = file
    /\ arg' = NoArg
    /\ trace' = <<>>
    /\ UNCHANGED <<kdev, pending, closeCalled, calc, delivered, answered, xr>>

RegisterDevice ==
    /\ \E evType \in {evKey, evFF}, eSet \in IoctlOutcomes, eDestroy \in IoctlOutcomes,
          eClose \in CloseOutcomes :
         LET r == registerDevice(file, kdev, evType, eSet, eDestroy, eClose)
         IN /\ file' = r.file
            /\ kdev' = r.dev
            /\ trace' = r.trace
            /\ ret' = r.ret
    /\ op' = "registerDevice"
    /\ afterClose' = closeCalled
    /\ pre' = file
    /\ arg' = NoArg
    /\ UNCHANGED <<pending, closeCalled, calc, delivered, answered, xr>>

CreateUsbDevice ==
    /\ \E d \in Descriptors, eWrite \in WriteOutcomes, eCreate \in IoctlOutcomes,
          eClose \in CloseOutcomes :
         LET r == createUsbDevice(file, kdev, d, eWrite, eCreate, eClose)
         IN /\ file' = r.file
            /\ kdev' = r.dev
            /\ trace' = r.trace
            /\ ret' = r.ret
    /\ op' = "createUsbDevice"
    /\ afterClose' = closeCalled
    /\ pre' = file
    /\ arg' = NoArg
    /\ UNCHANGED <<pending, closeCalled, calc, delivered, answered, xr>>

CloseDevice ==
    /\ \E eDestroy \in IoctlOutcomes, eClose \in CloseOutcomes :
         LET r == closeDevice(file, kdev, eDestroy, eClose)
         IN /\ file' = r.file
            /\ kdev' = r.dev
            /\ trace' = r.trace
            /\ ret' = r.ret
    /\ op' = "closeDevice"
    /\ afterClose' = closeCalled
    /\ pre' = file
    /\ arg' = NoArg
    /\ closeCalled' = TRUE
    /\ UNCHANGED <<pending, calc, delivered, answered, xr>>

SendBtnEvent ==
    /\ \E keys \in KeyLists, btnState \in {btnStateReleased, btnStatePressed},
          eSync \in WriteOutcomes :
         \E failAt \in 0..Len(keys) :
           LET r == sendBtnEvent(file, kdev, keys, btnState, failAt, eSync)
           IN /\ trace' = r.trace
              /\ ret' = r.ret
              /\ arg' = [NoArg EXCEPT !.keys = keys, !.state = btnState]
    /\ op' = "sendBtnEvent"
    /\ afterClose' = closeCalled
    /\ pre' = file
    /\ UNCHANGED <<file, kdev, pending, closeCalled, calc, delivered, answered, xr>>

SyncEvents ==
    /\ \E eSync \in WriteOutcomes :
         LET r == syncEvents(file, kdev, eSync)
         IN /\ trace' = r.trace
            /\ ret' = r.ret
    /\ op' = "syncEvents"
    /\ afterClose' = closeCalled
    /\ pre' = file
    /\ arg' = NoArg
    /\ UNCHANGED <<file, kdev, pending, closeCalled, calc, delivered, answered, xr>>

ForceFeedbackCallback ==
    /\ \E callback \in Callbacks, rd \in ReadOutcomes, eBegin \in IoctlOutcomes,
          cbRet \in CallbackReturns, eEnd \in IoctlOutcomes :
         /\ rd = "event" => pending # <<>>
         /\ rd = "zero" => pending = <<>>
         /\ LET r == forceFeedbackCallback(file, pending, callback, rd, eBegin, cbRet, eEnd)
            IN /\ pending' = r.pending
               /\ trace' = r.trace
               /\ ret' = r.ret
               /\ arg' = [NoArg EXCEPT !.callback = callback, !.pending = pending]
    /\ op' = "forceFeedbackCallback"
    /\ afterClose' = closeCalled
    /\ pre' = file
    /\ UNCHANGED <<file, kdev, closeCalled, calc, delivered, answered, xr>>

\* the kernel queues an event for the reader of an open, created device
KernelQueueEvent ==
    /\ file = "open"
    /\ kdev = "created"
    /\ Len(pending) < MaxPending
    /\ \E e \in KernelEvents : pending' = Append(pending, inputEventToBuffer(e))
    /\ UNCHANGED <<file, kdev, op, pre, arg, trace, ret, closeCalled, afterClose, calc, delivered, answered, xr>>

\* the caller of the README's rumble example: forceFeedbackCallback called
\* again and again with a callback, on a handle whose device is created,
\* every control call accepted. rd is what the read reports.
IsRequest(e) == e.Type = evUinput /\ e.Code \in {uiFFUpload, uiFFErase}
EndSteps(t) == SelectSeq(t, LAMBDA x : x.op = "ioctl" /\ x.cmd \in {uiEndFFUpload, uiEndFFErase})
RECURSIVE EndCalls(_)
EndCalls(t) ==
    IF t = <<>> THEN <<>>
    ELSE <<[cmd |-> Head(t).cmd, id |-> Head(t).id, ok |-> Head(t).ok]>> \o EndCalls(Tail(t))
\* what the kernel sends that caller: two uploads, an erase and a control
\* event that is neither
LoopEvents ==
    {inputEvent(Zero64, Zero64, evUinput, uiFFUpload, 0),
     inputEvent(Zero64, Zero64, evUinput, uiFFUpload, 1),
     inputEvent(Zero64, Zero64, evUinput, uiFFErase, 1),
     inputEvent(Zero64, Zero64, evUinput, 3, 0)}
Exchange(rd) ==
    /\ file = "open"
    /\ kdev = "created"
    /\ rd = "event" => pending # <<>>
    /\ rd = "zero" => pending = <<>>
    /\ op' = "forceFeedbackCallback"
    /\ afterClose' = closeCalled
    /\ pre' = file
    /\ arg' = [NoArg EXCEPT !.callback = "fn", !.pending = pending]
    /\ UNCHANGED <<file, kdev, closeCalled, calc, delivered, xr>>
    /\ \E cbRet \in CallbackReturns :
         LET r == forceFeedbackCallback(file, pending, "fn", rd, "", cbRet, "")
         IN /\ pending' = r.pending
            /\ trace' = r.trace
            /\ ret' = r.ret
            /\ answered' = answered \o EndCalls(EndSteps(r.trace))
ExchangeLoop == \E rd \in ReadOutcomes : Exchange(rd)
\* the call in which the read hands over the event at the head of the queue
ExchangeDelivers == Exchange("event")

\* the kernel queues an event for that caller
KernelDeliver ==
    /\ file = "open"
    /\ kdev = "created"
    /\ Len(pending) < MaxQueued
    /\ Len(delivered) < MaxDelivered
    /\ \E e \in LoopEvents :
         /\ pending' = Append(pending, inputEventToBuffer(e))
         /\ delivered' = IF IsRequest(e) THEN Append(delivered, e) ELSE delivered
    /\ UNCHANGED <<file, kdev, op, pre, arg, trace, ret, closeCalled, afterClose, calc,
                   answered, xr>>

\* the looping caller's call, one step at a time
LoopRead ==
    /\ xr.pc = "idle"
    /\ \E rd \in ReadOutcomes :
         /\ rd = "event" => pending # <<>>
         /\ rd = "zero" => pending = <<>>
         /\ LET r == loopRead(file, pending, xr, rd)
            IN /\ pending' = r.pending
               /\ xr' = r.x
    /\ UNCHANGED <<file, kdev, op, pre, arg, trace, ret, closeCalled, afterClose, calc,
                   delivered, answered>>
LoopBegin ==
    /\ xr.pc = "read"
    /\ \E eBegin \in IoctlOutcomes : xr' = loopBegin(file, xr, eBegin)
    /\ UNCHANGED <<file, kdev, pending, op, pre, arg, trace, ret, closeCalled,
                   afterClose, calc, delivered, answered>>
LoopCallback ==
    /\ xr.pc = "begun"
    /\ \E cbRet \in CallbackReturns : xr' = loopCallback(xr, cbRet)
    /\ UNCHANGED <<file, kdev, pending, op, pre, arg, trace, ret, closeCalled,
                   afterClose, calc, delivered, answered>>
LoopEnd ==
    /\ xr.pc = "called"
    /\ \E eEnd \in IoctlOutcomes : xr' = loopEnd(file, xr, eEnd)
    /\ UNCHANGED <<file, kdev, pending, op, pre, arg, trace, ret, closeCalled,
                   afterClose, calc, delivered, answered>>
\* closeDevice called once from the other context, one step at a time
CloseDestroy ==
    /\ xr.cpc = "idle"
    /\ \E eDestroy \in IoctlOutcomes :
         LET r == closeDestroy(file, kdev, xr, eDestroy)
         IN /\ kdev' = r.dev
            /\ xr' = r.x
    /\ UNCHANGED <<file, pending, op, pre, arg, trace, ret, closeCalled, afterClose,
                   calc, delivered, answered>>
CloseFile ==
    /\ xr.cpc = "destroyed"
    /\ \E eClose \in CloseOutcomes :
         LET r == closeFile(file, xr, eClose)
         IN /\ file' = r.file
            /\ xr' = r.x
    /\ UNCHANGED <<kdev, pending, op, pre, arg, trace, ret, closeCalled, afterClose,
                   calc, delivered, answered>>

\* names of every length around the limit, the nil name included
NameOfLen(n) == [i \in 1..n |-> 97 + (i % 26)]
NameLengths ==
    {0, 1, uinputMaxNameSize - 1, uinputMaxNameSize, uinputMaxNameSize + 1, MaxNameLen}
Names == {NilSlice} \cup {Slice(NameOfLen(n)) : n \in NameLengths}
\* the empty path, a path that does not exist and the device node
Paths == {"", "/some/bogus/path", "/dev/uinput"}
StatOf(path) == IF path = "/dev/uinput" THEN "" ELSE "ENOENT"
OpenOutcomes(path) == IF path = "/dev/uinput" THEN {"", "EACCES"} ELSE {"ENOENT"}

\* the names the kernel gives a device: "input5" and one of 64 characters
SysNames == {<<105, 110, 112, 117, 116, 53>>, [i \in 1..64 |-> 97 + (i % 26)]}

FetchSyspath ==
    /\ \E e \in IoctlOutcomes, kname \in SysNames :
         LET r == fetchSyspath(file, kdev, e, kname)
         IN /\ trace' = r.trace
            /\ ret' = r.ret
            /\ calc' = [fn |-> "fetchSyspath", in |-> kname, rec |-> r.path,
                        out |-> r.result, read |-> {}]
    /\ op' = "fetchSyspath"
    /\ afterClose' = closeCalled
    /\ pre' = file
    /\ arg' = NoArg
    /\ UNCHANGED <<file, kdev, pending, closeCalled, delivered, answered, xr>>

\* a constructor makes the handle: it is the first call
CreateGamepad ==
    /\ file = "unopened"
    /\ op = "none"
    /\ \E path \in Paths, name \in Names, rumble \in BOOLEAN, effectsMax \in 0..2,
          eDestroy \in IoctlOutcomes, eClose \in CloseOutcomes :
         \E eOpen \in OpenOutcomes(path), failAt \in 0..5 :
           LET r == createGamepad(path, name, rumble, effectsMax, StatOf(path), eOpen,
                                  failAt, eDestroy, eClose)
           IN /\ (rumble \/ effectsMax = 0)
              /\ failAt <= (IF rumble THEN 5 ELSE 4)
              /\ file' = r.file
              /\ kdev' = r.dev
              /\ trace' = r.trace
              /\ ret' = r.ret
              /\ arg' = [path |-> path, name |-> name, rumble |-> rumble,
                         effectsMax |-> effectsMax]
    /\ op' = "CreateGamepad"
    /\ afterClose' = closeCalled
    /\ pre' = file
    /\ UNCHANGED <<pending, closeCalled, calc, delivered, answered, xr>>

Next ==
    \/ CreateDeviceFile
    \/ RegisterDevice
    \/ CreateUsbDevice
    \/ CloseDevice
    \/ SendBtnEvent
    \/ SyncEvents
    \/ ForceFeedbackCallback
    \/ KernelQueueEvent

Spec == Init /\ [][Next]_vars

\* the force-feedback exchange on its own: setup, the kernel's events, the
\* exchange and close
NextFF ==
    \/ CreateDeviceFile
    \/ CreateUsbDevice
    \/ KernelQueueEvent
    \/ ForceFeedbackCallback
    \/ CloseDevice

SpecFF == Init /\ [][NextFF]_vars

\* the lifecycle and the event writers, with no kernel events queued
NextLife ==
    \/ CreateDeviceFile
    \/ RegisterDevice
    \/ CreateUsbDevice
    \/ CloseDevice
    \/ SendBtnEvent
    \/ SyncEvents

SpecLife == Init /\ [][NextLife]_vars

\* a handle made by a constructor, written to and closed
NextCreate ==
    \/ CreateGamepad
    \/ SendBtnEvent
    \/ CloseDevice

SpecCreate == Init /\ [][NextCreate]_vars

\* the force-feedback exchange called in a loop on a device that has just
\* been created with rumble support: the loop never stops, and a read on a
\* queue that holds an event hands it over
InitLoop ==
    /\ file = "open"
    /\ kdev = "created"
    /\ pending = <<>>
    /\ op = "createUsbDevice"
    /\ pre = "open"
    /\ arg = NoArg
    /\ trace \in {createUsbDevice("open", "none", d, "", "", "").trace :
                     d \in {x \in Descriptors : x.EffectsMax >= 1}}
    /\ ret = NoErr
    /\ closeCalled = FALSE
    /\ afterClose = FALSE
    /\ calc = NoCalc
    /\ delivered = <<>>
    /\ answered = <<>>
    /\ xr = NoRace

NextLoop ==
    \/ KernelDeliver
    \/ ExchangeLoop

SpecLoop == InitLoop /\ [][NextLoop]_vars /\ WF_vars(ExchangeDelivers)

\* the README's rumble example: the exchange loop in one goroutine, Close
\* in another, the kernel queueing events, on a device just created
NextRace ==
    \/ KernelQueueEvent
    \/ LoopRead
    \/ LoopBegin
    \/ LoopCallback
    \/ LoopEnd
    \/ CloseDestroy
    \/ CloseFile

SpecRace == InitLoop /\ [][NextRace]_vars

\* the lifecycle with the query of the syspath
NextSys ==
    \/ CreateDeviceFile
    \/ CreateUsbDevice
    \/ FetchSyspath
    \/ CloseDevice

SpecSys == Init /\ [][NextSys]_vars

TypeOK ==
    /\ file \in {"unopened", "open", "closed"}
    /\ kdev \in {"none", "created", "destroyed"}
    /\ Len(pending) <= MaxQueued
    /\ Len(delivered) <= MaxDelivered
    /\ Len(answered) <= Len(delivered)
    /\ closeCalled \in BOOLEAN
    /\ afterClose \in BOOLEAN
    /\ \A i \in 1..Len(pending) : Len(pending[i]) = 24
    /\ calc.fn \in STRING
    /\ Len(calc.rec) \in {0, 4, 12, 24, 48, 65, 104}
    /\ xr.pc \in {"idle", "read", "begun", "called"}
    /\ xr.cpc \in {"idle", "destroyed", "done"}
    /\ Len(xr.late) = Len(xr.steps)

\* ------------------------------------------- the codec functions applied
handleVars ==
    <<file, kdev, pending, op, pre, arg, trace, ret, closeCalled, afterClose,
      delivered, answered, xr>>

\* event records handed to the encoder: timestamps, types, codes and values
\* up to the ends of their ranges
Timevals == {Zero64, <<1, 0, 0, 0>>, <<65535, 65535, 65535, 32767>>}
Microseconds == {Zero64, <<16959, 15, 0, 0>>}
InputEvents ==
    {inputEvent(sec, usec, type, code, value) :
        sec \in Timevals, usec \in Microseconds,
        type \in {evSyn, evKey, evFF, evUinput},
        code \in {0, 1, 304, 65535},
        value \in {-2147483647 - 1, -1, 0, 1, 65536, 2147483647}}

InputEventToBuffer ==
    /\ \E iev \in InputEvents :
         calc' = [fn |-> "inputEventToBuffer", in |-> iev,
                  rec |-> inputEventToBuffer(iev), out |-> inputEventToBuffer(iev),
                  read |-> {}]
    /\ UNCHANGED handleVars

\* the decoder applied to the bytes the encoder produced last
InputEventFromBuffer ==
    /\ calc.fn = "inputEventToBuffer"
    /\ calc' = [fn |-> "inputEventFromBuffer", in |-> calc.in, rec |-> calc.rec,
                out |-> inputEventFromBuffer(calc.rec), read |-> {}]
    /\ UNCHANGED handleVars

\* ------------------------------------------- force-feedback effect records
\* A struct type is the sequence of its fields in declared order; the fields
\* of an embedded struct of 16-bit fields are listed in its place, which
\* gives the same offsets.
Field(n, k) == [name |-> n, kind |-> k]
SizeOfKind(k) ==
    CASE k \in {"uint16", "int16"} -> 2
      [] k \in {"uint32", "int32"} -> 4
      [] k = "pointer" -> 8
      [] k = "[32]byte" -> 32
AlignOfKind(k) == IF k = "[32]byte" THEN 1 ELSE SizeOfKind(k)
AlignUp(n, a) == ((n + a - 1) \div a) * a

\* unsafe.Offsetof of the i-th field and unsafe.Sizeof of the struct
RECURSIVE Offsetof(_, _)
Offsetof(T, i) ==
    IF i = 1 THEN 0
    ELSE AlignUp(Offsetof(T, i - 1) + SizeOfKind(T[i - 1].kind), AlignOfKind(T[i].kind))
RECURSIVE MaxAlign(_, _)
MaxAlign(T, i) ==
    IF i = 0 THEN 1
    ELSE LET a == AlignOfKind(T[i].kind)
             m == MaxAlign(T, i - 1)
         IN IF a > m THEN a ELSE m
Sizeof(T) ==
    AlignUp(Offsetof(T, Len(T)) + SizeOfKind(T[Len(T)].kind), MaxAlign(T, Len(T)))

FFEnvelope ==
    <<Field("AttackLength", "uint16"), Field("AttackLevel", "uint16"),
      Field("FadeLength", "uint16"), Field("FadeLevel", "uint16")>>
FFConstantEffect == <<Field("Level", "int16")>> \o FFEnvelope
FFRampEffect == <<Field("StartLevel", "int16"), Field("EndLevel", "int16")>> \o FFEnvelope
FFPeriodicEffect ==
    <<Field("Waveform", "uint16"), Field("Period", "uint16"),
      Field("Magnitude", "int16"), Field("Offset", "int16"),
      Field("Phase", "uint16")>> \o FFEnvelope \o
    <<Field("CustomLen", "uint32"), Field("CustomData", "pointer")>>
FFRumbleEffect ==
    <<Field("StrongMagnitude", "uint16"), Field("WeakMagnitude", "uint16")>>
FFConditionEffect ==
    <<Field("RightSaturation", "uint16"), Field("LeftSaturation", "uint16"),
      Field("RightCoeff", "int16"), Field("LeftCoeff", "int16"),
      Field("Deadband", "uint16"), Field("Center", "int16")>>

\* FFEffect without its explicit padding field
FFEffectNoPadding ==
    <<Field("Type", "uint16"), Field("ID", "int16"), Field("Direction", "uint16"),
      Field("Trigger.Button", "uint16"), Field("Trigger.Interval", "uint16"),
      Field("Replay.Length", "uint16"), Field("Replay.Delay", "uint16"),
      Field("u", "[32]byte")>>

FFEffect ==
    <<Field("Type", "uint16"), Field("ID", "int16"), Field("Direction", "uint16"),
      Field("Trigger.Button", "uint16"), Field("Trigger.Interval", "uint16"),
      Field("Replay.Length", "uint16"), Field("Replay.Delay", "uint16"),
      Field("_", "uint16"), Field("u", "[32]byte")>>
\* the fields of an embedded struct T, named after the field p that holds it
Embed(p, T) == [i \in 1..Len(T) |-> Field(p \o "." \o T[i].name, T[i].kind)]
UInputFFUpload ==
    <<Field("RequestID", "uint32"), Field("ReturnValue", "int32")>>
        \o Embed("Effect", FFEffect) \o Embed("OldEffect", FFEffect)
\* UInputFFErase without its effect id
UInputFFEraseNoEffectID ==
    <<Field("RequestID", "uint32"), Field("ReturnValue", "int32")>>

UInputFFErase ==
    <<Field("RequestID", "uint32"), Field("ReturnValue", "int32"),
      Field("EffectID", "uint32")>>
FieldIndex(T, n) == CHOOSE i \in 1..Len(T) : T[i].name = n

S16At(b, off) ==
    IF U16At(b, off) >= 32768 THEN U16At(b, off) - 65536 ELSE U16At(b, off)
\* the value of a field of the given kind in the memory b at byte offset off
valueAt(b, k, off) ==
    CASE k = "uint16" -> U16At(b, off)
      [] k = "int16" -> S16At(b, off)
      [] k = "uint32" -> W32At(b, off)
      [] k = "int32" -> Int32(W32At(b, off))
      [] k = "pointer" -> W64At(b, off)
      [] k = "[32]byte" -> SubSeq(b, off + 1, off + 32)
\* *(*T)(unsafe.Pointer(&b[base])): the fields of a T laid over the memory
\* from byte base on, in declared order; a byte beyond the end of b is not
\* part of the record and reads as "outside"; read is the set of byte
\* offsets the copy of the T touches
castTo(T, b, base) ==
    [value |-> [i \in 1..Len(T) |->
                   IF base + Offsetof(T, i) + SizeOfKind(T[i].kind) <= Len(b)
                   THEN valueAt(b, T[i].kind, base + Offsetof(T, i))
                   ELSE "outside"],
     read |-> base..(base + Sizeof(T) - 1)]

\* the accessors: a cast of the memory at &ff.u[0]
RumbleFromHeader(ff) == castTo(FFRumbleEffect, ff, 0)
Rumble(ff) == castTo(FFRumbleEffect, ff, Offsetof(FFEffect, FieldIndex(FFEffect, "u")))
\* Periodic laid over the second half of u
PeriodicFromSecondHalf(ff) ==
    castTo(FFPeriodicEffect, ff, Offsetof(FFEffect, FieldIndex(FFEffect, "u")) + 16)
Periodic(ff) == castTo(FFPeriodicEffect, ff, Offsetof(FFEffect, FieldIndex(FFEffect, "u")))
Ramp(ff) == castTo(FFRampEffect, ff, Offsetof(FFEffect, FieldIndex(FFEffect, "u")))
Constant(ff) == castTo(FFConstantEffect, ff, Offsetof(FFEffect, FieldIndex(FFEffect, "u")))
\* Condition: r[0] is the cast at &ff.u[0], r[1] the cast at &ff.u[16]
Condition(ff) ==
    LET r0 == castTo(FFConditionEffect, ff, Offsetof(FFEffect, FieldIndex(FFEffect, "u")))
        r1 == castTo(FFConditionEffect, ff,
                     Offsetof(FFEffect, FieldIndex(FFEffect, "u")) + 16)
    IN [value |-> <<r0.value, r1.value>>, read |-> r0.read \cup r1.read]

\* What the kernel stores for a struct ff_effect (input.h): the header
\* h = <<type, id, direction, button, interval, length, delay>> in 14 bytes,
\* two bytes of padding, and the member of the union named by variant from
\* byte 16 on, the rest of the 32 bytes of the union being zero.
Zeros(n) == [i \in 1..n |-> 0]
kernelPayload(variant, v) ==
    CASE variant = "rumble" -> LE16(v[1]) \o LE16(v[2]) \o Zeros(28)
      [] variant = "constant" ->
            LE16(v[1]) \o LE16(v[2]) \o LE16(v[3]) \o LE16(v[4]) \o LE16(v[5])
                \o Zeros(22)
      [] variant = "ramp" ->
            LE16(v[1]) \o LE16(v[2]) \o LE16(v[3]) \o LE16(v[4]) \o LE16(v[5])
                \o LE16(v[6]) \o Zeros(20)
      [] variant = "periodic" ->
            LE16(v[1]) \o LE16(v[2]) \o LE16(v[3]) \o LE16(v[4]) \o LE16(v[5])
                \o LE16(v[6]) \o LE16(v[7]) \o LE16(v[8]) \o LE16(v[9])
                \o Zeros(2) \o LE32(v[10]) \o LE64(v[11])
      [] variant = "condition" ->
            \* struct ff_condition_effect condition[2]: two elements of
            \* Sizeof(FFConditionEffect) bytes each, one after the other
            LE16(v[1]) \o LE16(v[2]) \o LE16(v[3]) \o LE16(v[4]) \o LE16(v[5])
                \o LE16(v[6]) \o LE16(v[7]) \o LE16(v[8]) \o LE16(v[9])
                \o LE16(v[10]) \o LE16(v[11]) \o LE16(v[12]) \o Zeros(8)
kernelEffect(h, variant, v) ==
    LE16(h[1]) \o LE16(h[2]) \o LE16(h[3]) \o LE16(h[4]) \o LE16(h[5])
        \o LE16(h[6]) \o LE16(h[7]) \o Zeros(2) \o kernelPayload(variant, v)

EffectHeaders == {<<80, 0, 0, 0, 0, 0, 0>>, <<81, -1, 16384, 304, 5, 1000, 65535>>}
Magnitudes == {0, 4660, 65535}
EffectValues(variant) ==
    CASE variant = "rumble" -> {<<s, w>> : s \in Magnitudes, w \in Magnitudes}
      [] variant = "constant" ->
            {<<-32768, 1, 2, 3, 4>>, <<32767, 65535, 0, 258, 772>>, <<-1, 0, 0, 0, 0>>}
      [] variant = "ramp" ->
            {<<-1, 1, 1, 2, 3, 4>>, <<32767, -32768, 65535, 4660, 0, 1>>}
      [] variant = "periodic" ->
            {<<88, 100, -5, 7, 9, 1, 2, 3, 4, W32(0, 2), <<4096, 49152, 127, 0>> >>,
             <<93, 65535, 32767, -32768, 65535, 65535, 258, 0, 772,
               W32(65535, 65535), Zero64>>}
      [] variant = "condition" ->
            {<<1, 2, -3, 4, 5, -6, 7, 8, -9, 10, 11, -12>>,
             <<65535, 0, 32767, -32768, 258, -1, 4660, 65535, -1, 1, 0, 772>>}
Variants == {"rumble", "constant", "ramp", "periodic", "condition"}

\* the kernel fills the Effect of an upload request; the code sees the
\* memory through the fields of FFEffect
FillEffect ==
    /\ \E h \in EffectHeaders, variant \in Variants :
         \E v \in EffectValues(variant) :
           calc' = [fn |-> "FFEffect", in |-> [header |-> h, variant |-> variant, values |-> v],
                    rec |-> kernelEffect(h, variant, v),
                    out |-> castTo(FFEffect, kernelEffect(h, variant, v), 0).value,
                    read |-> {}]
    /\ UNCHANGED handleVars

\* an accessor applied to the effect filled last, whatever its variant
Accessors == {"Rumble", "Periodic", "Ramp", "Constant", "Condition"}
Access(name, ff) ==
    CASE name = "Rumble" -> Rumble(ff)
      [] name = "Periodic" -> Periodic(ff)
      [] name = "Ramp" -> Ramp(ff)
      [] name = "Constant" -> Constant(ff)
      [] name = "Condition" -> Condition(ff)
CallAccessor ==
    /\ calc.fn = "FFEffect" \/ calc.fn \in Accessors
    /\ \E name \in Accessors :
         calc' = [fn |-> name, in |-> calc.in, rec |-> calc.rec,
                  out |-> Access(name, calc.rec).value,
                  read |-> Access(name, calc.rec).read]
    /\ UNCHANGED handleVars

\* descriptors with four different tables, for names up to the limit
TableOf(first, last) ==
    [i \in 0..(absSize - 1) |-> IF i = 0 THEN first ELSE IF i = absSize - 1 THEN last ELSE i]
LayoutNames == {NameOfLen(n) : n \in {0, 1, uinputMaxNameSize - 1, uinputMaxNameSize}}
LayoutDescriptor(name, effectsMax) ==
    [Name |-> toUinputName(name), Bustype |-> busUsb, Vendor |-> 57005,
     Product |-> 48879, Version |-> 1, EffectsMax |-> effectsMax,
     Absmax |-> TableOf(32767, 255), Absmin |-> TableOf(-32768, -1),
     Absfuzz |-> TableOf(16, 2147483647), Absflat |-> TableOf(128, -2147483647 - 1)]

\* the descriptor of a device with the given name, serialized as
\* createUsbDevice serializes it
BinaryWrite ==
    /\ \E name \in LayoutNames, effectsMax \in {0, 1, 65536} :
         calc' = [fn |-> "binaryWrite",
                  in |-> [name |-> name, dev |-> LayoutDescriptor(name, effectsMax)],
                  rec |-> <<>>,
                  out |-> binaryWrite(LayoutDescriptor(name, effectsMax)),
                  read |-> {}]
    /\ UNCHANGED handleVars

\* the fields of a control-call number: the direction in bits 30 and 31
\* (1 write, 2 read, 3 both) and the size of the record in bits 16 to 29
iocDir(cmd) == cmd.hi \div 16384
iocSize(cmd) == cmd.hi % 16384
\* what a set-bit call passes: the event type or code, an int to the kernel
SetBitArgSize == 4
\* the control calls that pass something, each with the memory it passes
ControlCalls ==
    {[cmd |-> c, record |-> Zeros(SetBitArgSize)] :
        c \in {uiSetEvBit, uiSetKeyBit, uiSetRelBit, uiSetAbsBit, uiSetFFBit}}
    \cup {[cmd |-> c, record |-> Zeros(Sizeof(UInputFFUpload))] :
        c \in {uiBeginFFUpload, uiEndFFUpload}}
    \cup {[cmd |-> c, record |-> Zeros(Sizeof(UInputFFErase))] :
        c \in {uiBeginFFErase, uiEndFFErase}}
    \cup {[cmd |-> uiGetSysname, record |-> fetchSyspath("open", "created", "", <<>>).path]}

\* a control call's number taken apart, next to the record of the call
IoctlNumber ==
    /\ \E c \in ControlCalls :
         calc' = [fn |-> "ioctlNumber", in |-> c.cmd, rec |-> c.record,
                  out |-> [dir |-> iocDir(c.cmd), size |-> iocSize(c.cmd)],
                  read |-> {}]
    /\ UNCHANGED handleVars

NextData ==
    \/ BinaryWrite
    \/ IoctlNumber
    \/ InputEventToBuffer
    \/ InputEventFromBuffer
    \/ FillEffect
    \/ CallAccessor

SpecData == Init /\ [][NextData]_vars

\* ------------------------------------------------- vocabulary of the claims
CallIsFF == op = "forceFeedbackCallback"
\* the last call was the exchange and its read returned the kernel's event e
EventRead(e) ==
    /\ CallIsFF
    /\ Len(trace) >= 1
    /\ trace[1].op = "read"
    /\ trace[1].buf = inputEventToBuffer(e)
CallbackIdx == {i \in 1..Len(trace) : trace[i].op = "callback"}
IoctlIdx(c) == {i \in 1..Len(trace) : trace[i].op = "ioctl" /\ trace[i].cmd = c}
ControlIdx == {i \in 1..Len(trace) : trace[i].op = "ioctl"}
AllControlOk == \A i \in ControlIdx : trace[i].ok
BeginCmds == {uiBeginFFUpload, uiBeginFFErase}
EndCmds == {uiEndFFUpload, uiEndFFErase}
RequestIdOf(e) == W32(0, e.Value)

\* C1: a call with a non-nil callback that reads an FF-upload control event
\* of value v, its control calls succeeding, does exactly: begin-upload with
\* request id v, callback(upload, nil), end-upload with request id v and the
\* callback's result as return value.
C1_UploadExchange ==
    \A e \in KernelEvents :
        (/\ EventRead(e)
         /\ arg.callback = "fn"
         /\ e.Type = evUinput
         /\ e.Code = uiFFUpload
         /\ AllControlOk)
        => /\ Len(trace) = 4
           /\ trace[2].op = "ioctl"
           /\ trace[2].cmd = uiBeginFFUpload
           /\ trace[2].id = RequestIdOf(e)
           /\ trace[3].op = "callback"
           /\ trace[3].up
           /\ ~trace[3].er
           /\ trace[4].op = "ioctl"
           /\ trace[4].cmd = uiEndFFUpload
           /\ trace[4].id = RequestIdOf(e)
           /\ trace[4].rv = trace[3].rv

C1_Witness ==
    \E e \in KernelEvents :
        /\ EventRead(e)
        /\ arg.callback = "fn"
        /\ e.Type = evUinput
        /\ e.Code = uiFFUpload
        /\ e.Value = MaxRequestID
        /\ AllControlOk
        /\ Len(trace) = 4
        /\ trace[3].rv = -1
        /\ ret = NoErr

\* C2: the callback is invoked at most once per call, with exactly one
\* non-nil argument: the upload for an FF-upload event, the erase for an
\* FF-erase event; the erase path is begin-erase, callback, end-erase with
\* the callback's result written back.
C2_CallbackOnceOneArgument ==
    CallIsFF =>
        /\ Cardinality(CallbackIdx) <= 1
        /\ \A i \in CallbackIdx :
             /\ trace[i].up # trace[i].er
             /\ \E e \in KernelEvents :
                  /\ EventRead(e)
                  /\ e.Type = evUinput
                  /\ \/ e.Code = uiFFUpload /\ trace[i].up
                     \/ e.Code = uiFFErase /\ trace[i].er
                  /\ trace[i].er =>
                       /\ i = 3
                       /\ Len(trace) = 4
                       /\ trace[2].op = "ioctl"
                       /\ trace[2].cmd = uiBeginFFErase
                       /\ trace[2].ok
                       /\ trace[2].id = RequestIdOf(e)
                       /\ trace[4].op = "ioctl"
                       /\ trace[4].cmd = uiEndFFErase
                       /\ trace[4].id = RequestIdOf(e)
                       /\ trace[4].rv = trace[3].rv

C2_Witness ==
    \E e \in KernelEvents :
        /\ EventRead(e)
        /\ e.Type = evUinput
        /\ e.Code = uiFFErase
        /\ e.Value = MaxRequestID
        /\ Len(trace) = 4
        /\ trace[3].op = "callback"
        /\ trace[3].er
        /\ trace[3].rv = -1
        /\ trace[4].ok

\* C3: with a nil callback the exchange returns an error at once: on an open
\* device file nothing is read, no control call is made and no queued event
\* is consumed.
C3_NilCallbackNoKernelInteraction ==
    (CallIsFF /\ arg.callback = "nil") =>
        /\ IsErr(ret)
        /\ pre = "open" => trace = <<>>

\* C4: an event of another type than evUinput, or a control event whose code
\* is neither FF-upload nor FF-erase, makes the call return success with no
\* callback and no control call.
C4_OtherEventsIgnored ==
    \A e \in KernelEvents :
        (EventRead(e) /\ (e.Type # evUinput \/ e.Code \notin {uiFFUpload, uiFFErase}))
        => /\ ret = NoErr
           /\ CallbackIdx = {}
           /\ ControlIdx = {}

\* C5: a read of zero bytes without error makes the exchange return success,
\* a read error makes it return an error; in both cases no callback is
\* invoked and no control call is issued.
C5_EmptyOrFailedRead ==
    CallIsFF =>
        /\ trace[1].op = "read"
        /\ (trace[1].ok /\ trace[1].buf = <<>>) => (ret = NoErr /\ Len(trace) = 1)
        /\ ~trace[1].ok => (IsErr(ret) /\ Len(trace) = 1)

C5_Witness ==
    /\ CallIsFF
    /\ pre = "open"
    /\ arg.callback = "fn"
    /\ trace = <<ReadStep(<<>>, "")>>
    /\ ret = NoErr

\* C6: a failing begin control call ends the call with an error, no callback
\* and no end control call; a failing end control call ends it with an error
\* after exactly one callback; neither the callback nor a control call is
\* repeated within one call.
C6_ControlCallFailure ==
    CallIsFF =>
        /\ \A i \in ControlIdx :
             (trace[i].cmd \in BeginCmds /\ ~trace[i].ok) =>
                 /\ IsErr(ret)
                 /\ CallbackIdx = {}
                 /\ i = Len(trace)
        /\ \A i \in ControlIdx :
             (trace[i].cmd \in EndCmds /\ ~trace[i].ok) =>
                 /\ IsErr(ret)
                 /\ Cardinality(CallbackIdx) = 1
                 /\ \A j \in CallbackIdx : j < i
        /\ Cardinality(CallbackIdx) <= 1
        /\ \A c \in BeginCmds \cup EndCmds : Cardinality(IoctlIdx(c)) <= 1

C6_Witness ==
    /\ CallIsFF
    /\ pre = "open"
    /\ Len(trace) = 2
    /\ trace[2].op = "ioctl"
    /\ trace[2].cmd \in BeginCmds
    /\ ~trace[2].ok
    /\ IsErr(ret)

\* C7: close() issues device-destroy first and then closes the file, whether
\* destroy succeeded or failed: after a call on an open handle the file is
\* closed.
C7_CloseAlwaysClosesFile ==
    (op = "closeDevice" /\ pre = "open") =>
        /\ trace[1].op = "ioctl"
        /\ trace[1].cmd = uiDevDestroy
        /\ \E i \in 2..Len(trace) : trace[i].op = "close"
        /\ file = "closed"

\* C8: close() returns the first error: that of device-destroy when destroy
\* fails, otherwise that of the file close, and nil only when both succeed;
\* the file close never comes before destroy.
C8_CloseReturnsFirstError ==
    op = "closeDevice" =>
        /\ trace[1].op = "ioctl"
        /\ trace[1].cmd = uiDevDestroy
        /\ ~trace[1].ok => (IsErr(ret) /\ ret.cause = trace[1].err)
        /\ trace[1].ok =>
             /\ Len(trace) = 2
             /\ trace[2].op = "close"
             /\ ret.cause = trace[2].err
             /\ IsErr(ret) <=> ~trace[2].ok
        /\ ret = NoErr => \A i \in 1..Len(trace) : trace[i].ok
        /\ \A i \in 1..Len(trace) : trace[i].op = "close" => i > 1

C8_Witness ==
    /\ op = "closeDevice"
    /\ pre = "open"
    /\ trace[1].ok
    /\ Len(trace) = 2
    /\ trace[2].err = "EIO"
    /\ ret.cause = "EIO"

\* C9: once close() has been called on a handle, every later operation on it
\* (event write, sync write, force-feedback read, control call, second close)
\* returns an error and nothing it attempts reaches the kernel, whatever the
\* close call itself returned.
HandleOps ==
    {"sendBtnEvent", "syncEvents", "forceFeedbackCallback", "registerDevice",
     "createUsbDevice", "closeDevice"}
C9_ClosedHandleFails ==
    (afterClose /\ op \in HandleOps) =>
        /\ IsErr(ret)
        /\ \A i \in 1..Len(trace) :
             trace[i].op \in {"write", "read", "ioctl"} => ~trace[i].ok

\* C10: when the set-event-bit control call is rejected, registerDevice
\* attempts device-destroy and then closes the file before it returns the
\* error, whether destroy succeeds or fails, so that no failure return leaves
\* the file open; on success it issues neither destroy nor close.
C10_RegisterTeardown ==
    op = "registerDevice" =>
        /\ trace[1].op = "ioctl"
        /\ trace[1].cmd = uiSetEvBit
        /\ ~trace[1].ok =>
             /\ Len(trace) = 3
             /\ trace[2].op = "ioctl"
             /\ trace[2].cmd = uiDevDestroy
             /\ trace[3].op = "close"
             /\ IsErr(ret)
        /\ trace[1].ok => (Len(trace) = 1 /\ ret = NoErr /\ file = pre)
        /\ IsErr(ret) => file # "open"

C10_Witness ==
    /\ op = "registerDevice"
    /\ pre = "open"
    /\ ~trace[1].ok
    /\ Len(trace) = 3
    /\ ~trace[2].ok
    /\ trace[3].ok
    /\ file = "closed"

\* C11: when the set-event-bit control call is rejected, the error that
\* registerDevice returns after the teardown carries the error of the failed
\* set-event-bit call, whether device-destroy succeeds or fails.
C11_RegisterReturnsSetBitError ==
    (op = "registerDevice" /\ ~trace[1].ok) =>
        /\ IsErr(ret)
        /\ ret.cause = trace[1].err

\* C12 (as stated): every failure return of createUsbDevice is preceded by a
\* teardown made of a device-destroy control call followed by the close of
\* the file, and no usable handle is returned.
C12_CommitFailureDestroysAndCloses ==
    (op = "createUsbDevice" /\ IsErr(ret)) =>
        /\ Len(trace) >= 2
        /\ trace[Len(trace) - 1].op = "ioctl"
        /\ trace[Len(trace) - 1].cmd = uiDevDestroy
        /\ trace[Len(trace)].op = "close"
        /\ file # "open"

\* C12 (amended): every failure return of createUsbDevice is preceded by the
\* close of the file and by no device-destroy control call, and the file is
\* not open afterwards; the successful return closes nothing.
C12_CommitFailureCloses ==
    op = "createUsbDevice" =>
        /\ IsErr(ret) =>
             /\ trace[Len(trace)].op = "close"
             /\ \A i \in 1..Len(trace) :
                  trace[i].op = "ioctl" => trace[i].cmd # uiDevDestroy
             /\ file # "open"
        /\ ret = NoErr =>
             /\ \A i \in 1..Len(trace) : trace[i].op # "close"
             /\ file = "open"

C12_Witness ==
    /\ op = "createUsbDevice"
    /\ pre = "open"
    /\ IsErr(ret)
    /\ Len(trace) = 3
    /\ trace[2].op = "ioctl"
    /\ ~trace[2].ok
    /\ trace[3].op = "close"
    /\ file = "closed"

\* C13: createUsbDevice writes the serialized descriptor first and issues
\* device-create second, and only if the write succeeded; on a file that is
\* not open it fails at the write with an error and issues no device-create;
\* it returns no error exactly when both succeeded, and then the device
\* exists and the file is open.
C13_CommitWriteThenCreate ==
    op = "createUsbDevice" =>
        /\ trace[1].op = "write"
        /\ \E d \in Descriptors : trace[1].buf = SerializedDescriptors[d]
        /\ \A i \in 1..Len(trace) :
             (trace[i].op = "ioctl" /\ trace[i].cmd = uiDevCreate) =>
                 (i = 2 /\ trace[1].ok)
        /\ pre # "open" =>
             /\ ~trace[1].ok
             /\ ret.msg = "failed to write uidev struct to device file: "
             /\ \A i \in 1..Len(trace) : trace[i].op # "ioctl"
        /\ ret = NoErr <=>
             (Len(trace) = 2 /\ trace[1].ok /\ trace[2].op = "ioctl" /\ trace[2].ok)
        /\ ret = NoErr => (kdev = "created" /\ file = "open")

C13_Witness ==
    /\ op = "createUsbDevice"
    /\ pre = "open"
    /\ ret = NoErr
    /\ Len(trace) = 2
    /\ trace[1].ok
    /\ trace[2].cmd = uiDevCreate
    /\ kdev = "created"

\* the 24 bytes of an event record with a zero timestamp, as the kernel
\* receives them: 16 zero bytes, then type, code and value, low byte first
WireRecord(type, code, value) ==
    [i \in 1..16 |-> 0] \o
    <<type % 256, type \div 256, code % 256, code \div 256,
      value % 256, (value \div 256) % 256, 0, 0>>
SyncRecord == WireRecord(evSyn, synReport, 0)
CallIsSendBtn == op = "sendBtnEvent"
\* every write of the last call succeeded
AllWritesOk == \A i \in 1..Len(trace) : trace[i].ok
\* every key-event write of the last sendBtnEvent call succeeded
KeyWritesOk ==
    /\ Len(trace) >= Len(arg.keys)
    /\ \A i \in 1..Len(arg.keys) : trace[i].ok

\* C14: a sendBtnEvent call whose writes all succeed writes exactly one key
\* event per code, in the order of the list and each with the given value,
\* followed by exactly one sync record (SYN, REPORT, 0) as the last record,
\* for every list, the empty one included.
C14_CallWritesKeysThenSync ==
    (CallIsSendBtn /\ AllWritesOk) =>
        /\ ret = NoErr
        /\ Len(trace) = Len(arg.keys) + 1
        /\ \A i \in 1..Len(arg.keys) :
             /\ trace[i].op = "write"
             /\ trace[i].buf = WireRecord(evKey, arg.keys[i], arg.state)
        /\ trace[Len(trace)].op = "write"
        /\ trace[Len(trace)].buf = SyncRecord
\* C14, second half: pressing key 1 and then releasing it delivers the four
\* records key 1 pressed, sync, key 1 released, sync.
C14_DownThenUp ==
    /\ CallIsSendBtn /\ AllWritesOk
    /\ arg.keys = <<1>> /\ arg.state = btnStatePressed
    /\ op' = "sendBtnEvent" /\ \A i \in 1..Len(trace') : trace'[i].ok
    /\ arg'.keys = <<1>> /\ arg'.state = btnStateReleased
C14_KeysThenSync ==
    /\ []C14_CallWritesKeysThenSync
    /\ [][C14_DownThenUp =>
            [i \in 1..4 |-> (trace \o trace')[i].buf] =
                <<WireRecord(evKey, 1, 1), SyncRecord,
                  WireRecord(evKey, 1, 0), SyncRecord>>]_vars

C14_Witness ==
    /\ CallIsSendBtn
    /\ AllWritesOk
    /\ arg.keys = <<1, 304>>
    /\ arg.state = btnStatePressed
    /\ Len(trace) = 3

\* C15 (as stated): every sendBtnEvent call that wrote at least one key event
\* also attempts the write of a sync record after the key events, the calls
\* in which the write of some code failed included.
C15_SyncAfterAnyKeyWrite ==
    (CallIsSendBtn /\ \E i \in 1..Len(trace) :
                         trace[i].ok /\ trace[i].buf # SyncRecord) =>
        /\ trace[Len(trace)].op = "write"
        /\ trace[Len(trace)].buf = SyncRecord

\* C15 (amended): a sendBtnEvent call attempts the sync write, once and after
\* the key events, exactly when every key-event write succeeded (the empty
\* list included); a call in which the write of some code failed returns the
\* error and attempts no sync write, even when earlier codes were written.
C15_SyncOnlyAfterAllKeyWrites ==
    CallIsSendBtn =>
        /\ KeyWritesOk =>
             /\ Len(trace) = Len(arg.keys) + 1
             /\ trace[Len(trace)].op = "write"
             /\ trace[Len(trace)].buf = SyncRecord
        /\ ~KeyWritesOk =>
             /\ IsErr(ret)
             /\ \A i \in 1..Len(trace) : trace[i].buf # SyncRecord

C15_Witness ==
    /\ CallIsSendBtn
    /\ Len(arg.keys) = 2
    /\ Len(trace) = 2
    /\ trace[1].ok
    /\ ~trace[2].ok
    /\ IsErr(ret)

\* C16: when a write of sendBtnEvent fails the call returns an error: the
\* failing write is the last thing attempted, the codes before it were each
\* written once and in order, no write is attempted twice, and a failing sync
\* write is returned as an error as well.
C16_PartialFailure ==
    CallIsSendBtn =>
        /\ Len(trace) >= 1
        /\ Len(trace) <= Len(arg.keys) + 1
        /\ \A i \in 1..Len(trace) :
             /\ i <= Len(arg.keys) =>
                    trace[i].buf = WireRecord(evKey, arg.keys[i], arg.state)
             /\ i = Len(arg.keys) + 1 => trace[i].buf = SyncRecord
             /\ i < Len(trace) => trace[i].ok
        /\ ~trace[Len(trace)].ok => (IsErr(ret) /\ ret.cause = trace[Len(trace)].err)

C16_Witness ==
    /\ CallIsSendBtn
    /\ pre = "open"
    /\ kdev = "created"
    /\ arg.keys = <<304, 1>>
    /\ Len(trace) = 1
    /\ ~trace[1].ok
    /\ ret.msg = "writing btnEvent structure to the device file failed: "

\* C17: an event write on a handle that is not active (no successful
\* createUsbDevice yet, or closeDevice already called) fails with an error
\* and no record of it reaches the kernel; event writes succeed only between
\* a successful createUsbDevice and closeDevice.
C17_WritesNeedActive ==
    (op \in {"sendBtnEvent", "syncEvents"} /\ (afterClose \/ kdev # "created")) =>
        /\ IsErr(ret)
        /\ \A i \in 1..Len(trace) : ~trace[i].ok

\* C18: for every event record, the encoder yields exactly 24 bytes holding,
\* low byte first and in this order, seconds (8 bytes), microseconds (8),
\* type (2), code (2) and value (4), and the decoder applied to those bytes
\* returns the record.
C18_EventCodec ==
    /\ calc.fn = "inputEventToBuffer" =>
         LET b == calc.out
             e == calc.in
             v == IF e.Value >= 0 THEN e.Value ELSE e.Value + 2147483647 + 1
         IN /\ Len(b) = 24
            /\ \A k \in 1..4 :
                 /\ b[2 * k - 1] = e.Sec[k] % 256
                 /\ b[2 * k] = e.Sec[k] \div 256
                 /\ b[8 + 2 * k - 1] = e.Usec[k] % 256
                 /\ b[8 + 2 * k] = e.Usec[k] \div 256
            /\ b[17] = e.Type % 256 /\ b[18] = e.Type \div 256
            /\ b[19] = e.Code % 256 /\ b[20] = e.Code \div 256
            /\ b[21] = v % 256
            /\ b[22] = (v \div 256) % 256
            /\ b[23] = (v \div 65536) % 256
            /\ b[24] = (v \div 16777216) + (IF e.Value < 0 THEN 128 ELSE 0)
    /\ calc.fn = "inputEventFromBuffer" => calc.out = calc.in

C18_Witness ==
    /\ calc.fn = "inputEventFromBuffer"
    /\ calc.in.Value = -1
    /\ calc.in.Code = 304
    /\ calc.in.Sec # Zero64
    /\ calc.out = calc.in

\* the accessor that belongs to a variant
AccessorOf(variant) ==
    CASE variant = "rumble" -> "Rumble"
      [] variant = "constant" -> "Constant"
      [] variant = "ramp" -> "Ramp"
      [] variant = "periodic" -> "Periodic"
      [] variant = "condition" -> "Condition"
HoldsEffect == calc.fn = "FFEffect" \/ calc.fn \in Accessors

\* C19: an effect record is 48 bytes and its payload starts at byte 16: the
\* header fields type, id, direction, trigger and replay and the padding lie
\* in bytes [0:16) where the kernel stored them, and the payload u is bytes
\* [16:48).
C19_EffectLayout ==
    HoldsEffect =>
        /\ Sizeof(FFEffect) = 48
        /\ Len(calc.rec) = 48
        /\ [i \in 1..9 |-> Offsetof(FFEffect, i)] = <<0, 2, 4, 6, 8, 10, 12, 14, 16>>
        /\ FFEffect[9].name = "u"
        /\ calc.fn = "FFEffect" =>
             /\ SubSeq(calc.out, 1, 7) = calc.in.header
             /\ calc.out[9] = SubSeq(calc.rec, 17, 48)
             /\ calc.out[9] = kernelPayload(calc.in.variant, calc.in.values)

C19_Witness ==
    /\ calc.fn = "FFEffect"
    /\ calc.in.header = <<81, -1, 16384, 304, 5, 1000, 65535>>
    /\ calc.in.variant = "periodic"
    /\ Len(calc.rec) = 48

\* C20: on a record whose payload the kernel built from the values of one
\* variant, the accessor of that variant returns those values in declared
\* order (Rumble: the two 16-bit fields of bytes [16:20), low byte first)
\* and leaves the record as it was.
C20_AccessorsReturnValues ==
    (calc.fn \in {"Rumble", "Constant", "Ramp", "Periodic"}
        /\ calc.fn = AccessorOf(calc.in.variant)) =>
        /\ calc.out = calc.in.values
        /\ calc.rec = kernelEffect(calc.in.header, calc.in.variant, calc.in.values)
        /\ calc.fn = "Rumble" =>
             calc.out = <<calc.rec[17] + 256 * calc.rec[18],
                          calc.rec[19] + 256 * calc.rec[20]>>

C20_Witness ==
    /\ calc.fn = "Periodic"
    /\ calc.in.variant = "periodic"
    /\ calc.out[3] = -5
    /\ calc.out[10] = W32(0, 2)
    /\ calc.out[11] = <<4096, 49152, 127, 0>>

\* C21: Condition returns two blocks, the first decoded from the record
\* from byte 16 on and the second from byte 32 on, and byte 32 is where the
\* producer of the record stores the condition of the second axis: the two
\* blocks are the two conditions the record was built from.
C21_ConditionBlocks ==
    (calc.fn = "Condition" /\ calc.in.variant = "condition") =>
        /\ Len(calc.out) = 2
        /\ calc.out[1] = castTo(FFConditionEffect, calc.rec, 16).value
        /\ calc.out[2] = castTo(FFConditionEffect, calc.rec, 32).value
        /\ calc.out[1] = SubSeq(calc.in.values, 1, 6)
        /\ calc.out[2] = SubSeq(calc.in.values, 7, 12)

\* C22: whatever the record and its variant, every accessor (Rumble,
\* Periodic, Ramp, Constant, Condition), the matching one or not, reads only
\* bytes of the payload [16:48) of the 48-byte record, none at or beyond byte
\* 48, and returns a value for each of its fields.
C22_AccessorsStayInPayload ==
    calc.fn \in Accessors =>
        /\ Len(calc.rec) = 48
        /\ calc.read # {}
        /\ calc.read \subseteq 16..47
        /\ calc.fn = "Rumble" => Len(calc.out) = Len(FFRumbleEffect)
        /\ calc.fn = "Periodic" => Len(calc.out) = Len(FFPeriodicEffect)
        /\ calc.fn = "Ramp" => Len(calc.out) = Len(FFRampEffect)
        /\ calc.fn = "Constant" => Len(calc.out) = Len(FFConstantEffect)
        /\ calc.fn = "Condition" =>
             (Len(calc.out) = 2 /\ Len(calc.out[2]) = Len(FFConditionEffect))

C22_Witness ==
    /\ calc.fn = "Periodic"
    /\ calc.in.variant = "rumble"
    /\ calc.read = 16..47
    /\ Len(calc.out) = 11

CallIsCreate == op = "CreateGamepad"
NameIsEmpty == arg.name.nil \/ Len(arg.name.bytes) = 0
NameIsTooLong == Len(arg.name.bytes) > 80
TooLongMessage ==
    <<"device name ", arg.name.bytes, " is too long (maximum of ", 80,
      " characters allowed)">>
\* the serialized descriptors written by the last call
WrittenDescriptors ==
    {trace[i].buf : i \in {j \in 1..Len(trace) : trace[j].op = "write"}}

\* C23: a nil or empty name is rejected with "device name may not be empty",
\* every name longer than 80 bytes with "device name <name> is too long
\* (maximum of 80 characters allowed)", every name of 1 to 80 bytes is
\* accepted, and no descriptor is written for a name that was rejected.
C23_NameValidation ==
    CallIsCreate =>
        /\ (NameIsEmpty \/ NameIsTooLong) => (IsErr(ret) /\ WrittenDescriptors = {})
        /\ arg.path = "/dev/uinput" =>
             /\ NameIsEmpty => ret = Err("device name may not be empty", "")
             /\ NameIsTooLong => ret = Err(TooLongMessage, "")
             /\ (~NameIsEmpty /\ ~NameIsTooLong) =>
                    /\ ret.msg # "device name may not be empty"
                    /\ TooLongMessage # ret.msg
                    /\ (arg.effectsMax = 0 /\ ~arg.rumble /\ pre = "unopened"
                            /\ trace # <<>> /\ AllWritesOk) => ret = NoErr

C23_Witness ==
    /\ CallIsCreate
    /\ arg.path = "/dev/uinput"
    /\ Len(arg.name.bytes) = MaxNameLen
    /\ ret.msg[2] = arg.name.bytes
    /\ trace = <<>>

\* C24: opening with the empty path fails with "device path must not be
\* empty" and opening a path that does not exist fails with the not-found
\* error of the OS; in both cases no file is opened and no control call is
\* issued.
C24_PathValidation ==
    CallIsCreate =>
        /\ arg.path = "" => ret = Err("device path must not be empty", "")
        /\ arg.path = "/some/bogus/path" => ret = Err("", "ENOENT")
        /\ arg.path # "/dev/uinput" =>
             (file = "unopened" /\ kdev = "none" /\ trace = <<>>)

C24_Witness ==
    /\ CallIsCreate
    /\ arg.path = "/some/bogus/path"
    /\ ret.cause = "ENOENT"
    /\ file = "unopened"

\* C27: the constructor with rumble and effectsMax below 1 fails with the
\* error of the minimum and creates no device; with effectsMax of 1 or more,
\* valid arguments and every step succeeding it returns the active handle,
\* and a button event sent to that handle is written as it is to the handle
\* of the constructor without rumble.
C27_Made == CallIsCreate /\ ret = NoErr
C27_EffectsMaxState ==
    (CallIsCreate /\ arg.rumble) =>
        /\ arg.effectsMax < 1 =>
             /\ IsErr(ret)
             /\ file = "unopened" /\ kdev = "none" /\ trace = <<>>
             /\ (arg.path = "/dev/uinput" /\ ~NameIsEmpty /\ ~NameIsTooLong) =>
                    ret.msg = "effectsMax is below the minimum value of 1, use CreateGamepad if you don't want rumble support"
        /\ (arg.effectsMax >= 1 /\ arg.path = "/dev/uinput" /\ ~NameIsEmpty
                /\ ~NameIsTooLong /\ trace # <<>> /\ AllWritesOk) =>
             /\ ret = NoErr
             /\ file = "open" /\ kdev = "created"
             /\ \A b \in WrittenDescriptors : b[89] = arg.effectsMax
ReadWriteFailuresCarried ==
    \A i \in 1..Len(trace) :
        (trace[i].op \in {"read", "write"} /\ ~trace[i].ok) =>
            (IsErr(ret) /\ ret.cause = trace[i].err)

\* C25 (as stated): every failure of opening the device file, of reading it
\* and of writing to it is returned as an error that carries the underlying
\* OS error, the failed open included.
C25_FailuresCarryOsError ==
    /\ ReadWriteFailuresCarried
    /\ (op = "createDeviceFile" /\ IsErr(ret)) => ret.cause # ""

\* C25 (amended): every failure of reading the device file and of writing to
\* it is returned as an error that carries the underlying OS error; a failed
\* open is returned as the fixed error "could not open device file", which
\* does not carry the OS error.
C25_ReadWriteCarryOpenDoesNot ==
    /\ ReadWriteFailuresCarried
    /\ (op = "createDeviceFile" /\ IsErr(ret)) =>
           ret = Err("could not open device file", "")

C25_Witness ==
    /\ op = "forceFeedbackCallback"
    /\ pre = "open"
    /\ Len(trace) = 1
    /\ trace[1].op = "read"
    /\ ~trace[1].ok
    /\ ret.cause = "EAGAIN"

\* C26: fetchSyspath hands a 65-byte buffer to the get-sysname control call
\* and, when the kernel stored a name of at most 64 characters and its
\* terminator, returns "/sys/devices/virtual/input/" followed by the
\* characters of the name and nothing else; when the control call fails it
\* returns the error.
C26_Syspath ==
    op = "fetchSyspath" =>
        /\ Len(trace) = 1
        /\ trace[1].op = "ioctl"
        /\ trace[1].cmd = uiGetSysname
        /\ Len(trace[1].buf) = 65
        /\ trace[1].ok => (ret = NoErr /\ calc.out = sysInputDir \o calc.in)
        /\ ~trace[1].ok => (IsErr(ret) /\ ret.cause = trace[1].err)

\* the four bytes of a 32-bit value, low byte first
Int32Bytes(v) ==
    LET u == IF v >= 0 THEN v ELSE v + 2147483647 + 1
    IN <<u % 256, (u \div 256) % 256, (u \div 65536) % 256,
         (u \div 16777216) + (IF v < 0 THEN 128 ELSE 0)>>
\* the 64 entries of table t lie in b from byte offset off on
TableAt(b, off, t) ==
    \A k \in 0..63 : SubSeq(b, off + 4 * k + 1, off + 4 * k + 4) = Int32Bytes(t[k])

\* C28: the descriptor is serialized as one block of 1116 bytes, low byte
\* first: the 80-byte name, then bus, vendor, product and version of 16 bits
\* each, effects-max of 32 bits, and the tables max, min, fuzz and flat of
\* 64 entries of 32 bits each; the name field of a name of at most 80 bytes
\* is the bytes of the name followed by zero bytes only.
C28_DescriptorLayout ==
    calc.fn = "binaryWrite" =>
        LET b == calc.out
            d == calc.in.dev
            n == calc.in.name
        IN /\ Len(b) = 1116
           /\ \A i \in 1..80 : b[i] = (IF i <= Len(n) THEN n[i] ELSE 0)
           /\ SubSeq(b, 81, 82) = <<d.Bustype % 256, d.Bustype \div 256>>
           /\ SubSeq(b, 83, 84) = <<d.Vendor % 256, d.Vendor \div 256>>
           /\ SubSeq(b, 85, 86) = <<d.Product % 256, d.Product \div 256>>
           /\ SubSeq(b, 87, 88) = <<d.Version % 256, d.Version \div 256>>
           /\ SubSeq(b, 89, 92) = Int32Bytes(d.EffectsMax)
           /\ TableAt(b, 92, d.Absmax)
           /\ TableAt(b, 348, d.Absmin)
           /\ TableAt(b, 604, d.Absfuzz)
           /\ TableAt(b, 860, d.Absflat)

C28_Witness ==
    /\ calc.fn = "binaryWrite"
    /\ Len(calc.in.name) = 80
    /\ calc.in.dev.EffectsMax = 65536
    /\ Len(calc.out) = 1116
    /\ calc.out[80] # 0
    /\ SubSeq(calc.out, 349, 352) = <<0, 128, 255, 255>>

\* C29: the size field of each control-call number that passes a record is
\* the byte size of that record: 104 for begin and end of an upload, 12 for
\* begin and end of an erase, 65 for the query of the system name and 4 for
\* the set-bit calls; the begin codes are read-write, the end codes write.
C29_ControlCallSizes ==
    calc.fn = "ioctlNumber" =>
        /\ calc.in.hi % 16384 = Len(calc.rec)
        /\ calc.in \in {uiBeginFFUpload, uiEndFFUpload} =>
               /\ Len(calc.rec) = 104
               /\ Sizeof(FFEffect) = 48
        /\ calc.in \in {uiBeginFFErase, uiEndFFErase} => Len(calc.rec) = 12
        /\ calc.in = uiGetSysname => Len(calc.rec) = 65
        /\ calc.in \in {uiSetEvBit, uiSetKeyBit, uiSetRelBit, uiSetAbsBit, uiSetFFBit} =>
               Len(calc.rec) = 4
        /\ calc.in \in BeginCmds => calc.in.hi \div 16384 = 3
        /\ calc.in \in EndCmds => calc.in.hi \div 16384 = 1
        /\ calc.out = [dir |-> calc.in.hi \div 16384, size |-> calc.in.hi % 16384]

C29_Witness ==
    /\ calc.fn = "ioctlNumber"
    /\ calc.in = uiEndFFErase
    /\ Len(calc.rec) = 12
    /\ calc.out = [dir |-> 1, size |-> 12]

\* the end control call that answers the request e
Answers(x, e) ==
    /\ x.ok
    /\ x.cmd = (IF e.Code = uiFFUpload THEN uiEndFFUpload ELSE uiEndFFErase)
    /\ x.id = W32(0, e.Value)
\* the calls of the loop answered the first requests, one end call each, in
\* the order of their delivery
AnsweredInOrder ==
    /\ Len(answered) <= Len(delivered)
    /\ \A i \in 1..Len(answered) : Answers(answered[i], delivered[i])
\* after a call of the loop no request is begun and not ended
BackInIdle ==
    (op = "forceFeedbackCallback" /\ file = "open") =>
        /\ Cardinality({i \in 1..Len(trace) : trace[i].cmd \in BeginCmds})
            = Cardinality({i \in 1..Len(trace) : trace[i].cmd \in EndCmds})
        /\ ret = NoErr \/ (Len(trace) = 1 /\ trace[1].op = "read")
\* a call takes nothing from the queue or the event at its head, and a
\* request taken is answered in that call
OneEventPerCall ==
    \/ /\ pending' = pending
       /\ answered' = answered
    \/ /\ pending # <<>>
       /\ pending' = Tail(pending)
       /\ Len(answered') = Len(answered) + (IF IsRequest(inputEventFromBuffer(Head(pending))) THEN 1 ELSE 0)
    \/ /\ Len(pending') = Len(pending) + 1
       /\ SubSeq(pending', 1, Len(pending)) = pending
       /\ answered' = answered

\* C30: under a caller that calls the exchange in a loop with a callback on
\* a handle whose device is created, every control call accepted, every
\* upload or erase event the kernel delivers is eventually answered by
\* exactly one end control call carrying the request id of that event; a
\* call consumes at most one event, events are answered in the order of
\* their delivery, and the exchange is idle again after every call.
C30_EveryRequestAnswered ==
    /\ [](AnsweredInOrder /\ BackInIdle)
    /\ [][OneEventPerCall]_vars
    /\ \A n \in 1..MaxDelivered :
           (Len(delivered) >= n) ~>
               (Len(answered) >= n /\ Answers(answered[n], delivered[n]))

C30_Witness ==
    /\ op = "forceFeedbackCallback"
    /\ Len(arg.pending) = 2
    /\ Len(delivered) = 2
    /\ delivered[1] # delivered[2]
    /\ Len(answered) = 1
    /\ Answers(answered[1], delivered[1])
    /\ Len(pending) = 1

\* the steps of the looping caller's call that are begin or end control
\* calls, and those that work on the file
RaceBegins == {i \in 1..Len(xr.steps) : xr.steps[i].op = "ioctl" /\ xr.steps[i].cmd \in BeginCmds}
RaceEnds == {i \in 1..Len(xr.steps) : xr.steps[i].op = "ioctl" /\ xr.steps[i].cmd \in EndCmds}
RaceFileSteps == {i \in 1..Len(xr.steps) : xr.steps[i].op \in {"read", "ioctl"}}

\* C31: with the exchange loop in one context and close called from another
\* without locking, in every interleaving no begin or end control call
\* succeeds after close has returned successfully; an exchange call that
\* close overtakes, that is one that works on the file after close has
\* returned successfully, returns an error; and a call whose begin control
\* call succeeded returns with a successful end control call or an error.
C31_CloseOvertakesExchange ==
    /\ \A i \in RaceBegins \cup RaceEnds : xr.late[i] => ~xr.steps[i].ok
    /\ (xr.returned /\ \E i \in RaceFileSteps : xr.late[i]) => IsErr(xr.ret)
    /\ (xr.returned /\ \E i \in RaceBegins : xr.steps[i].ok) =>
           \/ \E j \in RaceEnds : xr.steps[j].ok
           \/ IsErr(xr.ret)

C31_Witness ==
    /\ xr.returned
    /\ CloseReturned(xr)
    /\ Len(xr.steps) = 4
    /\ xr.steps[2].cmd = uiBeginFFUpload
    /\ xr.steps[2].ok
    /\ ~xr.late[2]
    /\ xr.late[4]
    /\ xr.steps[4].cmd = uiEndFFUpload
    /\ xr.steps[4].err = "EBADF"
    /\ xr.ret = Err("end ff upload ioctl failed: ", "EBADF")

====
